---- MODULE Spec2Model ----
(***************************************************************************)
(* Samsung S5P HDMI transmitter driver (drivers/media/platform/s5p-tv/     *)
(* hdmi_drv.c): mode selection, mode-apply with its dirty flag, the        *)
(* stream start/stop sequences, runtime power management.                  *)
(*                                                                         *)
(* Every driver entry point is one atomic action: the callers serialize    *)
(* them.  Each action records, in `last' and `log', what the call was      *)
(* given, what it returned and which hardware/collaborator steps it took,  *)
(* in order.                                                               *)
(***************************************************************************)
EXTENDS Integers, Sequences, FiniteSets, TLC

VARIABLES
    cur_conf,        \* hdev->cur_conf: name of the hdmi_timings struct pointed to
    cur_conf_dirty,  \* hdev->cur_conf_dirty (0 or 1)
    cur_timings,     \* hdev->cur_timings: the v4l2_dv_timings last accepted
    regs,            \* register file, value registers (timing programming)
    ctl,             \* register file, bit-field registers: name -> set of bits
    sclk_hdmi,       \* res->sclk_hdmi: [parent, enable]
    hdmiphy_clk,     \* res->hdmiphy: enable count
    regul,           \* res->regul_bulk: enable count
    rpm_active,      \* runtime-PM status of the device (TRUE: resumed)
    mhl_sd,          \* hdev->mhl_sd != NULL
    phy,             \* HDMIPHY subdev: the timings it holds, what s_stream last told it
    last,            \* the last call: what it was given and what it returned
    log,             \* the steps the last call took, in order
    hist             \* the two calls before the last one, oldest first (if tracked)

vars == <<cur_conf, cur_conf_dirty, cur_timings, regs, ctl, sclk_hdmi,
          hdmiphy_clk, regul, rpm_active, mhl_sd, phy, last, log, hist>>

----
\* errno values returned by the driver and its collaborators
EINVAL == 22

EIO == 5

ENODEV == 19

\* what v4l2_subdev_call returns for an operation the subdev does not install
ENOIOCTLCMD == 515

\* enum irqreturn: IRQ_HANDLED
IRQ_HANDLED == 1

\* number of HDMI_PHY_STATUS samples taken by hdmi_streamon
PHY_TRIES == 100

\* number of catalog entries the stream specification selects among
NumModes == 3

\* number of indices past the end of the catalog that enum_dv_timings is given
EnumBeyond == 2

----
\* v4l2_dv_timings.bt.flags bits
CAN_REDUCE_FPS == "V4L2_DV_FL_CAN_REDUCE_FPS"

HALF_LINE == "V4L2_DV_FL_HALF_LINE"

\* A v4l2_dv_timings of type V4L2_DV_BT_656_1120: the fields that tell the
\* CEA-861 modes of the catalog apart, and the flags.
BT(w, h, il, pclk, hfp, fl) ==
    [width |-> w, height |-> h, interlaced |-> il, pixelclock |-> pclk,
     hfrontporch |-> hfp, flags |-> fl]

V4L2_DV_BT_CEA_720X480P59_94 == BT(720, 480, 0, 27000000, 16, {})

V4L2_DV_BT_CEA_720X576P50 == BT(720, 576, 0, 27000000, 12, {})

V4L2_DV_BT_CEA_1280X720P50 == BT(1280, 720, 0, 74250000, 440, {})

V4L2_DV_BT_CEA_1280X720P60 == BT(1280, 720, 0, 74250000, 110, {CAN_REDUCE_FPS})

V4L2_DV_BT_CEA_1920X1080P24 == BT(1920, 1080, 0, 74250000, 638, {CAN_REDUCE_FPS})

V4L2_DV_BT_CEA_1920X1080P25 == BT(1920, 1080, 0, 74250000, 528, {})

V4L2_DV_BT_CEA_1920X1080P30 == BT(1920, 1080, 0, 74250000, 88, {CAN_REDUCE_FPS})

V4L2_DV_BT_CEA_1920X1080P50 == BT(1920, 1080, 0, 148500000, 528, {})

V4L2_DV_BT_CEA_1920X1080I50 == BT(1920, 1080, 1, 74250000, 528, {HALF_LINE})

V4L2_DV_BT_CEA_1920X1080I60 ==
    BT(1920, 1080, 1, 74250000, 88, {CAN_REDUCE_FPS, HALF_LINE})

V4L2_DV_BT_CEA_1920X1080P60 == BT(1920, 1080, 0, 148500000, 88, {CAN_REDUCE_FPS})

V4L2_DV_BT_DMT_640X480P60 == BT(640, 480, 0, 25175000, 16, {})

\* v4l2_match_dv_timings(t1, t2, 0): exact match of the timing signature;
\* the flags are not compared.
v4l2_match_dv_timings(t1, t2) ==
    /\ t1.width = t2.width
    /\ t1.height = t2.height
    /\ t1.interlaced = t2.interlaced
    /\ t1.pixelclock = t2.pixelclock
    /\ t1.hfrontporch = t2.hfrontporch

----
\* struct hdmi_pulse
Pulse(b, e) == [beg |-> b, end |-> e]

NoPulse == Pulse(0, 0)

\* struct hdmi_timings; members left out of an initializer are zero
Timings(hact, hsyn_pol, hsyn, il, vact0, vact1, vsyn_pol, vsyn_off, vsyn0, vsyn1) ==
    [hact |-> hact, hsyn_pol |-> hsyn_pol, hsyn |-> hsyn, interlaced |-> il,
     vact |-> <<vact0, vact1>>, vsyn_pol |-> vsyn_pol, vsyn_off |-> vsyn_off,
     vsyn |-> <<vsyn0, vsyn1>>]

hdmi_timings_480p ==
    Timings(Pulse(138, 858), 1, Pulse(16, 16 + 62), 0,
            Pulse(42 + 3, 522 + 3), NoPulse, 1, 0, Pulse(6 + 3, 12 + 3), NoPulse)

hdmi_timings_576p50 ==
    Timings(Pulse(144, 864), 1, Pulse(12, 12 + 64), 0,
            Pulse(44 + 5, 620 + 5), NoPulse, 1, 0, Pulse(0 + 5, 5 + 5), NoPulse)

hdmi_timings_720p60 ==
    Timings(Pulse(370, 1650), 0, Pulse(110, 110 + 40), 0,
            Pulse(25 + 5, 745 + 5), NoPulse, 0, 0, Pulse(0 + 5, 5 + 5), NoPulse)

hdmi_timings_720p50 ==
    Timings(Pulse(700, 1980), 0, Pulse(440, 440 + 40), 0,
            Pulse(25 + 5, 745 + 5), NoPulse, 0, 0, Pulse(0 + 5, 5 + 5), NoPulse)

hdmi_timings_1080p24 ==
    Timings(Pulse(830, 2750), 0, Pulse(638, 638 + 44), 0,
            Pulse(41 + 4, 1121 + 4), NoPulse, 0, 0, Pulse(0 + 4, 5 + 4), NoPulse)

hdmi_timings_1080p60 ==
    Timings(Pulse(280, 2200), 0, Pulse(88, 88 + 44), 0,
            Pulse(41 + 4, 1121 + 4), NoPulse, 0, 0, Pulse(0 + 4, 5 + 4), NoPulse)

\* mutant: a digit too many in the field offset (11000 for 1100)
hdmi_timings_1080i60_long_offset ==
    Timings(Pulse(280, 2200), 0, Pulse(88, 88 + 44), 1,
            Pulse(20 + 2, 560 + 2), Pulse(583 + 2, 1123 + 2), 0, 11000,
            Pulse(0 + 2, 5 + 2), Pulse(562 + 2, 567 + 2))

hdmi_timings_1080i60 ==
    Timings(Pulse(280, 2200), 0, Pulse(88, 88 + 44), 1,
            Pulse(20 + 2, 560 + 2), Pulse(583 + 2, 1123 + 2), 0, 1100,
            Pulse(0 + 2, 5 + 2), Pulse(562 + 2, 567 + 2))

hdmi_timings_1080i50 ==
    Timings(Pulse(720, 2640), 0, Pulse(528, 528 + 44), 1,
            Pulse(20 + 2, 560 + 2), Pulse(583 + 2, 1123 + 2), 0, 1320,
            Pulse(0 + 2, 5 + 2), Pulse(562 + 2, 567 + 2))

hdmi_timings_1080p50 ==
    Timings(Pulse(720, 2640), 0, Pulse(528, 528 + 44), 0,
            Pulse(41 + 4, 1121 + 4), NoPulse, 0, 0, Pulse(0 + 4, 5 + 4), NoPulse)

\* The hdmi_timings structs by name: cur_conf holds a name, as the driver
\* holds a pointer.
TimingsOf(name) ==
    CASE name = "hdmi_timings_480p"    -> hdmi_timings_480p
      [] name = "hdmi_timings_576p50"  -> hdmi_timings_576p50
      [] name = "hdmi_timings_720p60"  -> hdmi_timings_720p60
      [] name = "hdmi_timings_720p50"  -> hdmi_timings_720p50
      [] name = "hdmi_timings_1080p24" -> hdmi_timings_1080p24
      [] name = "hdmi_timings_1080p60" -> hdmi_timings_1080p60
      [] name = "hdmi_timings_1080i60" -> hdmi_timings_1080i60
      [] name = "hdmi_timings_1080i50" -> hdmi_timings_1080i50
      [] name = "hdmi_timings_1080p50" -> hdmi_timings_1080p50

Entry(rf, dv, ht) == [reduced_fps |-> rf, dv_timings |-> dv, hdmi_timings |-> ht]

\* the catalog hdmi_timings[], in table order (index i of the C array is i + 1)
hdmi_timings ==
    << Entry(FALSE, V4L2_DV_BT_CEA_720X480P59_94, "hdmi_timings_480p"),
       Entry(FALSE, V4L2_DV_BT_CEA_720X576P50,    "hdmi_timings_576p50"),
       Entry(FALSE, V4L2_DV_BT_CEA_1280X720P50,   "hdmi_timings_720p50"),
       Entry(TRUE,  V4L2_DV_BT_CEA_1280X720P60,   "hdmi_timings_720p60"),
       Entry(FALSE, V4L2_DV_BT_CEA_1920X1080P24,  "hdmi_timings_1080p24"),
       Entry(FALSE, V4L2_DV_BT_CEA_1920X1080P30,  "hdmi_timings_1080p60"),
       Entry(FALSE, V4L2_DV_BT_CEA_1920X1080P50,  "hdmi_timings_1080p50"),
       Entry(FALSE, V4L2_DV_BT_CEA_1920X1080I50,  "hdmi_timings_1080i50"),
       Entry(FALSE, V4L2_DV_BT_CEA_1920X1080I60,  "hdmi_timings_1080i60"),
       Entry(FALSE, V4L2_DV_BT_CEA_1920X1080P60,  "hdmi_timings_1080p60") >>

\* ARRAY_SIZE(hdmi_timings)
ARRAY_SIZE == Len(hdmi_timings)

HDMI_DEFAULT_TIMINGS_IDX == 0

----
\* C operators on u32 values.  The values stay below 2^31 here; a u32
\* difference that wraps is written through hdmi_writebn, and x % 2^(8n) of
\* the (negative) integer difference is the low n bytes of the wrapped u32.
RECURSIVE BitOr(_, _)
BitOr(a, b) ==
    IF a = 0 THEN b
    ELSE IF b = 0 THEN a
    ELSE (IF a % 2 = 1 \/ b % 2 = 1 THEN 1 ELSE 0) + 2 * BitOr(a \div 2, b \div 2)

Shl(x, k) == x * (2 ^ k)

\* value registers (byte groups written by hdmi_writebn are one register,
\* named after their first byte)
CoreSyncRegs ==
    {"HDMI_H_BLANK_0", "HDMI_H_SYNC_GEN_0", "HDMI_VSYNC_POL", "HDMI_V_BLANK_0",
     "HDMI_V_SYNC_GEN_1_0", "HDMI_INT_PRO_MODE", "HDMI_H_V_LINE_0",
     "HDMI_V_BLANK_F_0", "HDMI_V_SYNC_GEN_2_0", "HDMI_V_SYNC_GEN_3_0"}

TgRegs ==
    {"HDMI_TG_H_FSZ_L", "HDMI_TG_HACT_ST_L", "HDMI_TG_HACT_SZ_L",
     "HDMI_TG_VSYNC_L", "HDMI_TG_VACT_ST_L", "HDMI_TG_VACT_SZ_L",
     "HDMI_TG_VSYNC_TOP_HDMI_L", "HDMI_TG_FIELD_TOP_HDMI_L", "HDMI_TG_V_FSZ_L",
     "HDMI_TG_VSYNC2_L", "HDMI_TG_FIELD_CHG_L", "HDMI_TG_VACT_ST2_L",
     "HDMI_TG_VSYNC_BOT_HDMI_L", "HDMI_TG_FIELD_BOT_HDMI_L"}

BlueScreenRegs == {"HDMI_BLUE_SCREEN_0", "HDMI_BLUE_SCREEN_1", "HDMI_BLUE_SCREEN_2"}

ValueRegs == CoreSyncRegs \cup TgRegs \cup BlueScreenRegs

\* bit-field registers and their bits
BitRegs ==
    {"HDMI_INTC_CON", "HDMI_INTC_FLAG", "HDMI_MODE_SEL", "HDMI_CON_0", "HDMI_CON_2",
     "HDMI_TG_CMD", "HDMI_PHY_RSTOUT", "HDMI_CORE_RSTOUT"}

HDMI_INTC_EN_BITS ==
    {"HDMI_INTC_EN_GLOBAL", "HDMI_INTC_EN_HPD_PLUG", "HDMI_INTC_EN_HPD_UNPLUG"}

HDMI_MODE_MASK == {"HDMI_MODE_DVI_EN", "HDMI_MODE_HDMI_EN"}

HDMI_DVI_BITS == {"HDMI_DVI_PERAMBLE_EN", "HDMI_DVI_BAND_EN"}

\* ~0: every bit of a register
AllBits ==
    HDMI_INTC_EN_BITS \cup HDMI_MODE_MASK \cup HDMI_DVI_BITS \cup
    {"HDMI_EN", "HDMI_BLUE_SCR_EN", "HDMI_TG_EN", "HDMI_TG_FIELD_EN",
     "HDMI_PHY_SW_RSTOUT", "HDMI_CORE_SW_RSTOUT",
     "HDMI_INTC_FLAG_HPD_PLUG", "HDMI_INTC_FLAG_HPD_UNPLUG"}

\* hdmi_write_mask on the bit-field register file c
hdmi_write_mask(c, reg_id, value, mask) ==
    [c EXCEPT ![reg_id] = (value \cap mask) \cup (c[reg_id] \ mask)]

\* hdmi_writeb on the value register file r
hdmi_writeb(r, reg_id, value) == [r EXCEPT ![reg_id] = value % 256]

\* hdmi_writebn: the n low bytes of value (n = 1..3 in this driver)
hdmi_writebn(r, reg_id, n, value) == [r EXCEPT ![reg_id] = value % (2 ^ (8 * n))]

\* a sequence of <<reg_id, n, value>> writes applied in order
RECURSIVE WriteAll(_, _)
WriteAll(r, ws) ==
    IF ws = <<>> THEN r
    ELSE WriteAll(hdmi_writebn(r, ws[1][1], ws[1][2], ws[1][3]), Tail(ws))

\* mutant: the baseline initialization also clears HDMI_INTC_FLAG
hdmi_reg_init_clears_flags(r, c) ==
    [regs |-> r,
     ctl |-> [hdmi_write_mask(c, "HDMI_INTC_CON", AllBits, HDMI_INTC_EN_BITS)
                EXCEPT !["HDMI_INTC_FLAG"] = {}]]

\* hdmi_reg_init: [regs, ctl] after the baseline register initialization
hdmi_reg_init(r, c) ==
    LET c1 == hdmi_write_mask(c, "HDMI_INTC_CON", AllBits, HDMI_INTC_EN_BITS)
        c2 == hdmi_write_mask(c1, "HDMI_MODE_SEL", {"HDMI_MODE_DVI_EN"}, HDMI_MODE_MASK)
        c3 == hdmi_write_mask(c2, "HDMI_CON_2", AllBits, HDMI_DVI_BITS)
        c4 == hdmi_write_mask(c3, "HDMI_CON_0", {}, {"HDMI_BLUE_SCR_EN"})
        r1 == hdmi_writeb(r, "HDMI_BLUE_SCREEN_0", 18)
        r2 == hdmi_writeb(r1, "HDMI_BLUE_SCREEN_1", 52)
        r3 == hdmi_writeb(r2, "HDMI_BLUE_SCREEN_2", 86)
    IN  [regs |-> r3, ctl |-> c4]

\* hdmi_timing_apply, core registers: the writes, in order
CoreWrites(t) ==
    << <<"HDMI_H_BLANK_0", 2, t.hact.beg>>,
       <<"HDMI_H_SYNC_GEN_0", 3,
         BitOr(BitOr(Shl(t.hsyn_pol, 20), Shl(t.hsyn.end, 10)), t.hsyn.beg)>>,
       <<"HDMI_VSYNC_POL", 1, t.vsyn_pol>>,
       <<"HDMI_V_BLANK_0", 3, BitOr(Shl(t.vact[1].beg, 11), t.vact[1].end)>>,
       <<"HDMI_V_SYNC_GEN_1_0", 3, BitOr(Shl(t.vsyn[1].beg, 12), t.vsyn[1].end)>> >>
    \o
    (IF t.interlaced # 0
     THEN LET vsyn_trans == t.hsyn.beg + t.vsyn_off
          IN  << <<"HDMI_INT_PRO_MODE", 1, 1>>,
                 <<"HDMI_H_V_LINE_0", 3, BitOr(Shl(t.hact.end, 12), t.vact[2].end)>>,
                 <<"HDMI_V_BLANK_F_0", 3, BitOr(Shl(t.vact[2].end, 11), t.vact[2].beg)>>,
                 <<"HDMI_V_SYNC_GEN_2_0", 3, BitOr(Shl(t.vsyn[2].beg, 12), t.vsyn[2].end)>>,
                 <<"HDMI_V_SYNC_GEN_3_0", 3, BitOr(Shl(vsyn_trans, 12), vsyn_trans)>> >>
     ELSE << <<"HDMI_INT_PRO_MODE", 1, 0>>,
             <<"HDMI_H_V_LINE_0", 3, BitOr(Shl(t.hact.end, 12), t.vact[1].end)>> >>)

\* mutant: the frame size where the active size belongs
tg_active_size_end(p) == p.end

\* the active-window size handed to the timing generator
tg_active_size(p) == p.end - p.beg

\* hdmi_timing_apply, timing generator registers: the writes, in order
TgWrites(t) ==
    << <<"HDMI_TG_H_FSZ_L", 2, t.hact.end>>,
       <<"HDMI_TG_HACT_ST_L", 2, t.hact.beg>>,
       <<"HDMI_TG_HACT_SZ_L", 2, tg_active_size(t.hact)>>,
       <<"HDMI_TG_VSYNC_L", 2, t.vsyn[1].beg>>,
       <<"HDMI_TG_VACT_ST_L", 2, t.vact[1].beg>>,
       <<"HDMI_TG_VACT_SZ_L", 2, tg_active_size(t.vact[1])>>,
       <<"HDMI_TG_VSYNC_TOP_HDMI_L", 2, t.vsyn[1].beg>>,
       <<"HDMI_TG_FIELD_TOP_HDMI_L", 2, t.vsyn[1].beg>> >>
    \o
    (IF t.interlaced # 0
     THEN << <<"HDMI_TG_V_FSZ_L", 2, t.vact[2].end>>,
             <<"HDMI_TG_VSYNC2_L", 2, t.vsyn[2].beg>>,
             <<"HDMI_TG_FIELD_CHG_L", 2, t.vact[1].end>>,
             <<"HDMI_TG_VACT_ST2_L", 2, t.vact[2].beg>>,
             <<"HDMI_TG_VSYNC_BOT_HDMI_L", 2, t.vsyn[2].beg>>,
             <<"HDMI_TG_FIELD_BOT_HDMI_L", 2, t.vsyn[2].beg>> >>
     ELSE << <<"HDMI_TG_V_FSZ_L", 2, t.vact[1].end>> >>)

\* the hdmi_timings structs of the driver
ConfNames ==
    {"hdmi_timings_480p", "hdmi_timings_576p50", "hdmi_timings_720p60",
     "hdmi_timings_720p50", "hdmi_timings_1080p24", "hdmi_timings_1080p60",
     "hdmi_timings_1080i60", "hdmi_timings_1080i50", "hdmi_timings_1080p50"}

\* the value-register writes of hdmi_timing_apply for each struct, in order
TimingWrites == [name \in ConfNames |->
                    CoreWrites(TimingsOf(name)) \o TgWrites(TimingsOf(name))]

\* hdmi_timing_apply: [regs, ctl] after programming the struct named t
hdmi_timing_apply(r, c, t) ==
    [regs |-> WriteAll(r, TimingWrites[t]),
     ctl  |-> hdmi_write_mask(c, "HDMI_TG_CMD",
                              IF TimingsOf(t).interlaced # 0 THEN AllBits ELSE {},
                              {"HDMI_TG_FIELD_EN"})]

\* hdmi_timing_apply given the struct itself: [regs, ctl] after programming t
hdmi_timing_apply_struct(r, c, t) ==
    [regs |-> WriteAll(r, CoreWrites(t) \o TgWrites(t)),
     ctl  |-> hdmi_write_mask(c, "HDMI_TG_CMD",
                              IF t.interlaced # 0 THEN AllBits ELSE {},
                              {"HDMI_TG_FIELD_EN"})]

----
\* collaborators and kernel services

\* one step of a call: what was done, its argument, its result
Ev(e, a, r) == [ev |-> e, arg |-> a, ret |-> r]

\* the cleared v4l2_dv_timings (no timings)
NoTimings == BT(0, 0, 0, 0, 0, {})

\* v4l2_subdev_call(sd, ...): -ENODEV when sd is NULL, else the subdev's result
v4l2_subdev_call(sd, result) == IF sd THEN result ELSE -ENODEV

\* the HDMIPHY subdev's s_dv_timings: on success it holds the timings
phy_s_dv_timings(p, t, result) ==
    IF result = 0 THEN [p EXCEPT !.timings = t] ELSE p

\* the HDMIPHY subdev's s_stream: it records what it was last told
phy_s_stream(p, enable) == [p EXCEPT !.stream = enable]

\* clk_enable / clk_disable / clk_set_parent on a [parent, enable] clock
clk_enable(clk) == [clk EXCEPT !.enable = @ + 1]

clk_disable(clk) == [clk EXCEPT !.enable = @ - 1]

clk_set_parent(clk, parent) == [clk EXCEPT !.parent = parent]

\* register contents once the supplies are switched off and on again: the
\* device context is lost, every register is back at its reset value
RegsReset == [r \in ValueRegs |-> 0]

CtlReset == [r \in BitRegs |-> {}]

----
\* hdmi_conf_apply

\* mutant: the dirty check is lost, every call applies again
conf_never_synchronized(dirty) == FALSE

\* "skip if conf is already synchronized with HW"
conf_synchronized(dirty) == dirty = 0

\* mutant: the PHY's answer to s_dv_timings is not checked
phy_never_rejected(ret) == FALSE

\* "if (ret) { dev_err(dev, "failed to set timings\n"); return ret; }"
phy_rejected(ret) == ret # 0

\* mutant: the dirty flag is cleared before the timing registers are written
ApplySteps_dirty_first(tim_ret) ==
    << Ev("HDMI_PHY_SW_RSTOUT", 1, 0), Ev("HDMI_PHY_SW_RSTOUT", 0, 0),
       Ev("phy.s_dv_timings", 0, tim_ret),
       Ev("HDMI_CORE_SW_RSTOUT", 0, 0), Ev("HDMI_CORE_SW_RSTOUT", 1, 0),
       Ev("hdmi_reg_init", 0, 0), Ev("cur_conf_dirty", 0, 0),
       Ev("hdmi_timing_apply", 0, 0) >>

\* the steps of a complete mode-apply, in order (results filled in)
ApplySteps(tim_ret) ==
    << Ev("HDMI_PHY_SW_RSTOUT", 1, 0), Ev("HDMI_PHY_SW_RSTOUT", 0, 0),
       Ev("phy.s_dv_timings", 0, tim_ret),
       Ev("HDMI_CORE_SW_RSTOUT", 0, 0), Ev("HDMI_CORE_SW_RSTOUT", 1, 0),
       Ev("hdmi_reg_init", 0, 0), Ev("hdmi_timing_apply", 0, 0),
       Ev("cur_conf_dirty", 0, 0) >>

\* hdmi_conf_apply on the device [dirty, regs, ctl, phy]; tim_ret is the
\* result the PHY gives to s_dv_timings.  Returns the device after the call
\* with the return value and the steps taken.
hdmi_conf_apply(d, tim_ret) ==
    IF conf_synchronized(d.dirty)
    THEN [ret |-> 0, dirty |-> d.dirty, regs |-> d.regs, ctl |-> d.ctl,
          phy |-> d.phy, log |-> <<>>]
    ELSE
      LET \* reset hdmiphy
          c1 == hdmi_write_mask(d.ctl, "HDMI_PHY_RSTOUT", AllBits, {"HDMI_PHY_SW_RSTOUT"})
          c2 == hdmi_write_mask(c1, "HDMI_PHY_RSTOUT", {}, {"HDMI_PHY_SW_RSTOUT"})
          \* configure timings
          ret == tim_ret
          p1 == phy_s_dv_timings(d.phy, cur_timings, ret)
          \* resetting HDMI core
          c3 == hdmi_write_mask(c2, "HDMI_CORE_RSTOUT", {}, {"HDMI_CORE_SW_RSTOUT"})
          c4 == hdmi_write_mask(c3, "HDMI_CORE_RSTOUT", AllBits, {"HDMI_CORE_SW_RSTOUT"})
          init == hdmi_reg_init(d.regs, c4)
          \* setting core registers
          done == hdmi_timing_apply(init.regs, init.ctl, cur_conf)
      IN  IF phy_rejected(ret)
          THEN [ret |-> ret, dirty |-> d.dirty, regs |-> d.regs, ctl |-> c2,
                phy |-> p1, log |-> SubSeq(ApplySteps(ret), 1, 3)]
          ELSE [ret |-> 0, dirty |-> 0, regs |-> done.regs, ctl |-> done.ctl,
                phy |-> p1, log |-> ApplySteps(ret)]

\* hdmi_conf_apply on a dirty device, statement by statement: the device
\* after each of its steps, up to the return
hdmi_conf_apply_trace(d, tim_ret) ==
    LET s1 == [d EXCEPT !.ctl = hdmi_write_mask(d.ctl, "HDMI_PHY_RSTOUT", AllBits,
                                                {"HDMI_PHY_SW_RSTOUT"})]
        s2 == [s1 EXCEPT !.ctl = hdmi_write_mask(s1.ctl, "HDMI_PHY_RSTOUT", {},
                                                 {"HDMI_PHY_SW_RSTOUT"})]
        s3 == [s2 EXCEPT !.phy = phy_s_dv_timings(s2.phy, cur_timings, tim_ret)]
        s4 == [s3 EXCEPT !.ctl = hdmi_write_mask(s3.ctl, "HDMI_CORE_RSTOUT", {},
                                                 {"HDMI_CORE_SW_RSTOUT"})]
        s5 == [s4 EXCEPT !.ctl = hdmi_write_mask(s4.ctl, "HDMI_CORE_RSTOUT", AllBits,
                                                 {"HDMI_CORE_SW_RSTOUT"})]
        init == hdmi_reg_init(s5.regs, s5.ctl)
        s6 == [s5 EXCEPT !.regs = init.regs, !.ctl = init.ctl]
        done == hdmi_timing_apply(s6.regs, s6.ctl, cur_conf)
        s7 == [s6 EXCEPT !.regs = done.regs, !.ctl = done.ctl]
        s8 == [s7 EXCEPT !.dirty = 0]
    IN  IF phy_rejected(tim_ret) THEN <<s1, s2, s3>>
        ELSE <<s1, s2, s3, s4, s5, s6, s7, s8>>

----
\* hdmi_streamon

\* mutant: the loop written "for (tries = 100; tries--; )": the count is
\* already taken when the ready bit is seen
RECURSIVE phy_wait_postdec(_, _, _)
phy_wait_postdec(tries, reads, lock_after) ==
    IF tries = 0 THEN [tries |-> 0, reads |-> reads]
    ELSE IF reads >= lock_after THEN [tries |-> tries - 1, reads |-> reads + 1]
    ELSE phy_wait_postdec(tries - 1, reads + 1, lock_after)

\* "waiting for HDMIPHY's PLL to get to steady state": the loop of
\* hdmi_streamon.  The PHY shows HDMI_PHY_STATUS_READY from its
\* (lock_after + 1)-th sample on.  Returns the value of `tries' after the
\* loop and the number of samples read.
RECURSIVE phy_wait(_, _, _)
phy_wait(tries, reads, lock_after) ==
    IF tries = 0 THEN [tries |-> 0, reads |-> reads]
    ELSE IF reads >= lock_after THEN [tries |-> tries, reads |-> reads + 1]
    ELSE phy_wait(tries - 1, reads + 1, lock_after)

\* the outcome of the loop for a PHY that locks after n not-ready samples
PhyWait == [n \in 0..PHY_TRIES |-> phy_wait(PHY_TRIES, 0, n)]

\* "steady state not achieved"
phy_timed_out(tries) == tries = 0

\* mutant: the shared clock is not enabled again after the reparent
streamon_clock_left_disabled(clk) == clk_set_parent(clk_disable(clk), "sclk_hdmiphy")

\* "hdmiphy clock is used for HDMI in streaming mode"
streamon_clock(clk) ==
    clk_enable(clk_set_parent(clk_disable(clk), "sclk_hdmiphy"))

StreamonClockSteps ==
    << Ev("clk_disable", 0, 0), Ev("clk_set_parent.sclk_hdmiphy", 0, 0),
       Ev("clk_enable", 0, 0) >>

\* "enable HDMI and timing generator"
streamon_enable(c) ==
    hdmi_write_mask(hdmi_write_mask(c, "HDMI_CON_0", AllBits, {"HDMI_EN"}),
                    "HDMI_TG_CMD", AllBits, {"HDMI_TG_EN"})

StreamonEnableSteps == << Ev("HDMI_EN", 1, 0), Ev("HDMI_TG_EN", 1, 0) >>

\* mutant: the repeater's result is acted on without looking at mhl_sd
mhl_failed_any(has_mhl, ret) == ret # 0

\* "if (hdev->mhl_sd && ret)"
mhl_failed(has_mhl, ret) == has_mhl /\ ret # 0

\* hdmi_streamon on the device [dirty, regs, ctl, phy, clk]; `in' holds the
\* collaborators' answers: tim_ret (PHY s_dv_timings), on_ret (PHY
\* s_stream 1), lock_after (PHY status), mhl_ret (MHL s_stream 1), off_ret
\* (PHY s_stream 0).
hdmi_streamon(d, in) ==
    LET a == hdmi_conf_apply(d, in.tim_ret)
        same == [ret |-> a.ret, dirty |-> a.dirty, regs |-> a.regs, ctl |-> a.ctl,
                 phy |-> a.phy, clk |-> d.clk, log |-> a.log]
        on == Ev("phy.s_stream", 1, in.on_ret)
        p_on == phy_s_stream(a.phy, 1)
        w == PhyWait[in.lock_after]
        poll == Ev("HDMI_PHY_STATUS", w.reads, IF phy_timed_out(w.tries) THEN 0 ELSE 1)
        off == Ev("phy.s_stream", 0, in.off_ret)
        p_off == phy_s_stream(p_on, 0)
        mhl_ret == v4l2_subdev_call(mhl_sd, in.mhl_ret)
        mhl == Ev("mhl.s_stream", 1, mhl_ret)
    IN  IF a.ret # 0 THEN same
        ELSE IF in.on_ret # 0
        THEN [same EXCEPT !.ret = in.on_ret, !.phy = p_on, !.log = a.log \o <<on>>]
        ELSE IF phy_timed_out(w.tries)
        THEN [same EXCEPT !.ret = -EIO, !.phy = p_off,
                          !.log = a.log \o <<on, poll, off>>]
        ELSE IF mhl_failed(mhl_sd, mhl_ret)
        THEN [same EXCEPT !.ret = -EIO, !.phy = p_off,
                          !.log = a.log \o <<on, poll, mhl, off>>]
        ELSE [same EXCEPT !.ret = 0, !.phy = p_on,
                          !.clk = streamon_clock(d.clk),
                          !.ctl = streamon_enable(a.ctl),
                          !.log = a.log \o <<on, poll, mhl>> \o StreamonClockSteps
                                  \o StreamonEnableSteps]

----
\* hdmi_streamoff

\* mutant: the timing generator is left enabled
streamoff_disable_core_only(c) == hdmi_write_mask(c, "HDMI_CON_0", {}, {"HDMI_EN"})

\* clear HDMI_EN and HDMI_TG_EN
streamoff_disable(c) ==
    hdmi_write_mask(hdmi_write_mask(c, "HDMI_CON_0", {}, {"HDMI_EN"}),
                    "HDMI_TG_CMD", {}, {"HDMI_TG_EN"})

\* "pixel(vpll) clock is used for HDMI in config mode"
streamoff_clock(clk) ==
    clk_enable(clk_set_parent(clk_disable(clk), "sclk_pixel"))

\* hdmi_streamoff on the device [dirty, regs, ctl, phy, clk]; `in' holds
\* mhl_ret (MHL s_stream 0) and off_ret (PHY s_stream 0), both ignored.
hdmi_streamoff(d, in) ==
    [ret |-> 0, dirty |-> d.dirty, regs |-> d.regs,
     ctl |-> streamoff_disable(d.ctl),
     phy |-> phy_s_stream(d.phy, 0),
     clk |-> streamoff_clock(d.clk),
     log |-> << Ev("HDMI_EN", 0, 0), Ev("HDMI_TG_EN", 0, 0),
                Ev("clk_disable", 0, 0), Ev("clk_set_parent.sclk_pixel", 0, 0),
                Ev("clk_enable", 0, 0),
                Ev("mhl.s_stream", 0, v4l2_subdev_call(mhl_sd, in.mhl_ret)),
                Ev("phy.s_stream", 0, in.off_ret) >>]

----
\* power sequencing and runtime PM

\* mutant: the clocks are switched on before the regulators' result is looked at
hdmi_resource_poweron_clocks_first(w, regul_ret) ==
    [ret |-> IF regul_ret < 0 THEN regul_ret ELSE 0,
     pw |-> [w EXCEPT !.regul = IF regul_ret < 0 THEN @ ELSE @ + 1,
                      !.hdmiphy = @ + 1,
                      !.clk = clk_enable(clk_set_parent(w.clk, "sclk_pixel"))],
     log |-> << Ev("regulator_bulk_enable", 0, regul_ret),
                Ev("clk_enable.hdmiphy", 0, 0),
                Ev("clk_set_parent.sclk_pixel", 0, 0),
                Ev("clk_enable", 0, 0) >>]

\* hdmi_resource_poweron on [regul, hdmiphy, clk, regs, ctl]; regul_ret is the
\* result of regulator_bulk_enable
hdmi_resource_poweron(w, regul_ret) ==
    IF regul_ret < 0
    THEN [ret |-> regul_ret, pw |-> w, log |-> << Ev("regulator_bulk_enable", 0, regul_ret) >>]
    ELSE [ret |-> 0,
          pw |-> [w EXCEPT !.regul = @ + 1,
                           !.hdmiphy = @ + 1,
                           !.clk = clk_enable(clk_set_parent(w.clk, "sclk_pixel"))],
          log |-> << Ev("regulator_bulk_enable", 0, regul_ret),
                     Ev("clk_enable.hdmiphy", 0, 0),
                     Ev("clk_set_parent.sclk_pixel", 0, 0),
                     Ev("clk_enable", 0, 0) >>]

\* hdmi_resource_poweroff; with the supplies off the register contents are lost
hdmi_resource_poweroff(w) ==
    [pw |-> [w EXCEPT !.clk = clk_disable(w.clk),
                      !.hdmiphy = @ - 1,
                      !.regul = @ - 1,
                      !.regs = RegsReset,
                      !.ctl = CtlReset],
     log |-> << Ev("clk_disable", 0, 0), Ev("clk_disable.hdmiphy", 0, 0),
                Ev("regulator_bulk_disable", 0, 0) >>]

\* mutant: suspend does not flag the lost context
suspend_keeps_dirty(dirty) == dirty

\* mutant: suspend marks the configuration as applied
suspend_clears_dirty(dirty) == 0

\* "flag that device context is lost"
suspend_dirty(dirty) == 1

\* hdmi_runtime_suspend; mhl_ret is the (ignored) result of MHL s_power 0
hdmi_runtime_suspend(w, dirty, mhl_ret) ==
    LET off == hdmi_resource_poweroff(w)
    IN  [ret |-> 0, pw |-> off.pw, dirty |-> suspend_dirty(dirty),
         log |-> << Ev("mhl.s_power", 0, v4l2_subdev_call(mhl_sd, mhl_ret)) >> \o off.log]

\* mutant: the "fail" label returns without hdmi_resource_poweroff
hdmi_runtime_resume_no_undo(w, dirty, regul_ret, mhl_ret) ==
    LET on == hdmi_resource_poweron(w, regul_ret)
        ret == v4l2_subdev_call(mhl_sd, mhl_ret)
        mhl == Ev("mhl.s_power", 1, ret)
    IN  IF on.ret < 0
        THEN [ret |-> on.ret, pw |-> on.pw, dirty |-> dirty, log |-> on.log]
        ELSE IF mhl_sd /\ ret # 0
        THEN [ret |-> ret, pw |-> on.pw, dirty |-> dirty, log |-> on.log \o <<mhl>>]
        ELSE [ret |-> 0, pw |-> on.pw, dirty |-> dirty, log |-> on.log \o <<mhl>>]

\* hdmi_runtime_resume; mhl_ret is the result of MHL s_power 1
hdmi_runtime_resume(w, dirty, regul_ret, mhl_ret) ==
    LET on == hdmi_resource_poweron(w, regul_ret)
        ret == v4l2_subdev_call(mhl_sd, mhl_ret)
        mhl == Ev("mhl.s_power", 1, ret)
        off == hdmi_resource_poweroff(on.pw)
    IN  IF on.ret < 0
        THEN [ret |-> on.ret, pw |-> on.pw, dirty |-> dirty, log |-> on.log]
        ELSE IF mhl_sd /\ ret # 0
        THEN [ret |-> ret, pw |-> off.pw, dirty |-> dirty,
              log |-> on.log \o <<mhl>> \o off.log]
        ELSE [ret |-> 0, pw |-> on.pw, dirty |-> dirty, log |-> on.log \o <<mhl>>]

----
\* mode selection

\* the loop of hdmi_s_dv_timings: the first index whose dv_timings match, or
\* ARRAY_SIZE + 1 (one past the end) when none does
RECURSIVE find_timings(_, _)
find_timings(i, timings) ==
    IF i > ARRAY_SIZE THEN i
    ELSE IF v4l2_match_dv_timings(hdmi_timings[i].dv_timings, timings) THEN i
    ELSE find_timings(i + 1, timings)

\* mutant: the flag is cleared whatever the entry says
reduce_fps_flags_always(reduced_fps, flags) == flags \ {CAN_REDUCE_FPS}

\* "if (!hdmi_timings[i].reduced_fps) flags &= ~V4L2_DV_FL_CAN_REDUCE_FPS"
reduce_fps_flags(reduced_fps, flags) ==
    IF ~reduced_fps THEN flags \ {CAN_REDUCE_FPS} ELSE flags

\* mutant: dirty is raised before the lookup has found an entry
hdmi_s_dv_timings_early_dirty(d, timings) ==
    LET i == find_timings(1, timings)
    IN  IF i = ARRAY_SIZE + 1
        THEN [ret |-> -EINVAL, conf |-> d.conf, dirty |-> 1, timings |-> d.timings]
        ELSE [ret |-> 0,
              conf |-> hdmi_timings[i].hdmi_timings,
              dirty |-> 1,
              timings |-> [timings EXCEPT
                             !.flags = reduce_fps_flags(hdmi_timings[i].reduced_fps, @)]]

\* mutant: a new mode is stored without raising dirty
hdmi_s_dv_timings_no_dirty(d, timings) ==
    LET i == find_timings(1, timings)
    IN  IF i = ARRAY_SIZE + 1
        THEN [ret |-> -EINVAL, conf |-> d.conf, dirty |-> d.dirty, timings |-> d.timings]
        ELSE [ret |-> 0,
              conf |-> hdmi_timings[i].hdmi_timings,
              dirty |-> d.dirty,
              timings |-> [timings EXCEPT
                             !.flags = reduce_fps_flags(hdmi_timings[i].reduced_fps, @)]]

\* mutant: cur_conf is switched, cur_timings is left as it was
hdmi_s_dv_timings_conf_only(d, timings) ==
    LET i == find_timings(1, timings)
    IN  IF i = ARRAY_SIZE + 1
        THEN [ret |-> -EINVAL, conf |-> d.conf, dirty |-> d.dirty, timings |-> d.timings]
        ELSE [ret |-> 0, conf |-> hdmi_timings[i].hdmi_timings, dirty |-> 1,
              timings |-> d.timings]

\* hdmi_s_dv_timings on [conf, dirty, timings]
hdmi_s_dv_timings(d, timings) ==
    LET i == find_timings(1, timings)
    IN  IF i = ARRAY_SIZE + 1
        THEN [ret |-> -EINVAL, conf |-> d.conf, dirty |-> d.dirty, timings |-> d.timings]
        ELSE [ret |-> 0,
              conf |-> hdmi_timings[i].hdmi_timings,
              dirty |-> 1,
              timings |-> [timings EXCEPT
                             !.flags = reduce_fps_flags(hdmi_timings[i].reduced_fps, @)]]

\* hdmi_g_dv_timings: the timings handed back
hdmi_g_dv_timings(timings) == timings

\* hdmi_enum_dv_timings on the caller's v4l2_enum_dv_timings [pad, index,
\* timings]: the return value and the struct handed back
hdmi_enum_dv_timings(e) ==
    IF e.pad # 0 THEN [ret |-> -EINVAL, timings |-> e.timings]
    ELSE IF e.index >= ARRAY_SIZE THEN [ret |-> -EINVAL, timings |-> e.timings]
    ELSE [ret |-> 0,
          timings |-> [hdmi_timings[e.index + 1].dv_timings EXCEPT
                         !.flags = reduce_fps_flags(hdmi_timings[e.index + 1].reduced_fps, @)]]

\* hdmi_dv_timings_cap on the caller's v4l2_dv_timings_cap; phy_cap is what
\* the PHY's dv_timings_cap leaves in it (the pixelclock range)
hdmi_dv_timings_cap(cap, phy_cap) ==
    IF cap.pad # 0 THEN [ret |-> -EINVAL, cap |-> cap]
    ELSE [ret |-> 0,
          cap |-> [phy_cap EXCEPT
                     !.type = "V4L2_DV_BT_656_1120",
                     !.min_width = 720, !.max_width = 1920,
                     !.min_height = 480, !.max_height = 1080,
                     !.standards = {"V4L2_DV_BT_STD_CEA861"},
                     !.capabilities = {"V4L2_DV_BT_CAP_INTERLACED",
                                       "V4L2_DV_BT_CAP_PROGRESSIVE"}]]

\* hdmi_g_mbus_fmt for the struct cur_conf points to ("NULL": no struct)
hdmi_g_mbus_fmt(conf) ==
    IF conf = "NULL" THEN [ret |-> -EINVAL, fmt |-> "unset"]
    ELSE LET t == TimingsOf(conf)
             width == t.hact.end - t.hact.beg
             height == t.vact[1].end - t.vact[1].beg
         IN  [ret |-> 0,
              fmt |-> [width |-> width,
                       height |-> IF t.interlaced # 0 THEN height * 2 ELSE height,
                       code |-> "V4L2_MBUS_FMT_FIXED",
                       colorspace |-> "V4L2_COLORSPACE_SRGB",
                       field |-> IF t.interlaced # 0 THEN "V4L2_FIELD_INTERLACED"
                                 ELSE "V4L2_FIELD_NONE"]]

----
\* the operations the subdev installs

hdmi_sd_core_ops == {"s_power"}

hdmi_sd_video_ops == {"s_dv_timings", "g_dv_timings", "g_mbus_fmt", "s_stream"}

hdmi_sd_pad_ops == {"enum_dv_timings", "dv_timings_cap"}

\* struct v4l2_subdev_ops hdmi_sd_ops: the groups its initializer sets
hdmi_sd_ops == [core |-> hdmi_sd_core_ops, video |-> hdmi_sd_video_ops]

\* v4l2_subdev_call's test "(sd)->ops->o && (sd)->ops->o->f"
subdev_has_op(ops, o, f) == o \in DOMAIN ops /\ f \in ops[o]

\* v4l2_subdev_call(sd, pad, enum_dv_timings, e) on the HDMI subdev
subdev_enum_dv_timings(e) ==
    IF subdev_has_op(hdmi_sd_ops, "pad", "enum_dv_timings")
    THEN hdmi_enum_dv_timings(e)
    ELSE [ret |-> -ENOIOCTLCMD, timings |-> e.timings]

\* v4l2_subdev_call(sd, pad, dv_timings_cap, cap) on the HDMI subdev
subdev_dv_timings_cap(cap, phy_cap) ==
    IF subdev_has_op(hdmi_sd_ops, "pad", "dv_timings_cap")
    THEN hdmi_dv_timings_cap(cap, phy_cap)
    ELSE [ret |-> -ENOIOCTLCMD, cap |-> cap]

----
\* hot-plug interrupt

\* the hot-plug flags of HDMI_INTC_FLAG
HDMI_INTC_FLAG_HPD_PLUG == "HDMI_INTC_FLAG_HPD_PLUG"

HDMI_INTC_FLAG_HPD_UNPLUG == "HDMI_INTC_FLAG_HPD_UNPLUG"

HpdFlags == {HDMI_INTC_FLAG_HPD_PLUG, HDMI_INTC_FLAG_HPD_UNPLUG}

\* the value hdmi_write_mask hands to writel: "(value & mask) | (old & ~mask)"
write_mask_value(old, value, mask) == (value \cap mask) \cup (old \ mask)

\* HDMI_INTC_FLAG as the hardware keeps it: a flag written as 1 is cleared
intc_flag_write(flags, written) == flags \ written

\* "if (intc_flag & HDMI_INTC_FLAG_HPD_PLUG)": the second check of the handler
irq_second_check(intc_flag, first_taken) == HDMI_INTC_FLAG_HPD_PLUG \in intc_flag

\* hdmi_irq_handler on the bit-field register file c.  `late' are the edges
\* the hardware latches after the handler has read HDMI_INTC_FLAG and before
\* it acknowledges.  Returns the registers, the return value and the steps:
\* each report, and each write to HDMI_INTC_FLAG with the value written.
hdmi_irq_handler(c, late) ==
    LET intc_flag == c["HDMI_INTC_FLAG"]
        f0 == intc_flag \cup late
        unplug == HDMI_INTC_FLAG_HPD_UNPLUG \in intc_flag
        v1 == write_mask_value(f0, AllBits, {HDMI_INTC_FLAG_HPD_UNPLUG})
        f1 == IF unplug THEN intc_flag_write(f0, v1) ELSE f0
        plug == irq_second_check(intc_flag, unplug)
        v2 == write_mask_value(f1, AllBits, {HDMI_INTC_FLAG_HPD_PLUG})
        f2 == IF plug THEN intc_flag_write(f1, v2) ELSE f1
    IN  [ret |-> IRQ_HANDLED,
         ctl |-> [c EXCEPT !["HDMI_INTC_FLAG"] = f2],
         log |-> (IF unplug
                  THEN << Ev("pr_info", "unplugged", 0), Ev("HDMI_INTC_FLAG", v1, 0) >>
                  ELSE <<>>)
                 \o
                 (IF plug
                  THEN << Ev("pr_info", "plugged", 0), Ev("HDMI_INTC_FLAG", v2, 0) >>
                  ELSE <<>>)]

----
\* inputs

\* catalog entries in the order the stream specification takes them up:
\* the default, the reduced-fps mode, an interlaced mode, then the rest
ModeOrder == <<1, 4, 9, 6, 10, 2, 3, 5, 7, 8>>

StreamModes == {ModeOrder[k] : k \in 1..NumModes}

WithFlags(t, fl) == [t EXCEPT !.flags = fl]

\* descriptors no catalog entry matches: another resolution, and a catalog
\* resolution with another blanking
Unsupported == {V4L2_DV_BT_DMT_640X480P60, V4L2_DV_BT_CEA_1920X1080P25}

\* what callers pass to s_dv_timings in the stream specification
StreamDescs ==
    {WithFlags(hdmi_timings[i].dv_timings, fl) :
        i \in StreamModes, fl \in {{}, {CAN_REDUCE_FPS}}}
    \cup {V4L2_DV_BT_CEA_1920X1080P25}

\* what callers pass to s_dv_timings in the mode-selection specification
AllDescs ==
    {WithFlags(t, fl) :
        t \in {hdmi_timings[i].dv_timings : i \in 1..ARRAY_SIZE} \cup Unsupported,
        fl \in SUBSET {CAN_REDUCE_FPS, HALF_LINE}}

\* answers of the collaborators
PhyTimingsRet == {0, -EINVAL}

SubdevRet == {0, -EIO}

RegulRet == {0, -EINVAL}

\* HDMI_PHY_STATUS: number of not-ready samples before the ready bit shows
\* (PHY_TRIES and more: not within the driver's budget)
LockAfter == {0, PHY_TRIES - 1, PHY_TRIES}

\* The answers hdmi_streamon can get on a device with the given dirty flag
\* and MHL subdev.  An answer to a call the driver does not get to make (or
\* makes on a NULL subdev) is left at 0: it changes nothing.
StreamOnInputs(dirty, has_mhl) ==
    {in \in [tim_ret : PhyTimingsRet, on_ret : SubdevRet, lock_after : LockAfter,
             mhl_ret : SubdevRet, off_ret : SubdevRet] :
        LET started == in.tim_ret = 0 /\ in.on_ret = 0
            locked == started /\ in.lock_after < PHY_TRIES
        IN  /\ (dirty = 0 => in.tim_ret = 0)
            /\ (in.tim_ret # 0 => in.on_ret = 0)
            /\ (~started => in.lock_after = 0)
            /\ (~(locked /\ has_mhl) => in.mhl_ret = 0)
            /\ (~(started /\ (~locked \/ in.mhl_ret # 0)) => in.off_ret = 0)}

StreamOffInputs == [mhl_ret : SubdevRet, off_ret : SubdevRet]

\* what callers pass to enum_dv_timings: every index of the catalog and some
\* past its end, on pad 0 and on another pad
EnumInputs ==
    [pad : {0, 1}, index : 0..(ARRAY_SIZE - 1 + EnumBeyond), timings : {NoTimings}]

\* what callers pass to dv_timings_cap, and what the PHY fills in
CapInputs ==
    [pad : {0, 1}, type : {"unset"}, min_width : {0}, max_width : {0},
     min_height : {0}, max_height : {0}, standards : {{}}, capabilities : {{}},
     min_pixelclock : {0}, max_pixelclock : {0}]

PhyCaps(cap) ==
    {cap, [cap EXCEPT !.min_pixelclock = 27000000, !.max_pixelclock = 148500000]}

\* how many times 2^16 is added to an active window's end
WideSteps == 1

\* hdmi_timings structs that are in no table of the driver: every pulse has
\* beg < end; the active windows go from the sizes of real modes to sizes
\* past two bytes, the field offset from 0 to past twelve bits
SynthTimings ==
    { Timings(hact, 0, Pulse(ho[1], ho[1] + 44), il, vact0, Pulse(585, 1125), 0,
              ho[2], Pulse(2, 7), Pulse(564, 569)) :
        hact \in {Pulse(100, 900 + 65536 * k) : k \in 0..WideSteps}
                    \cup {Pulse(280, 2200)},
        ho \in {<<88, 0>>, <<88, 1100>>, <<4000, 95>>, <<4000, 96>>, <<88, 5000>>},
        il \in {0, 1},
        vact0 \in {Pulse(10, 510 + 65536 * k) : k \in 0..WideSteps}
                    \cup {Pulse(22, 562)} }

----
\* the state machine

\* The record of a call: its name and return value; the timings passed in
\* (arg) and handed back (out); the PHY's lock delay during the call; and
\* what the call found on entry: the dirty flag and the HDMI_EN bit.
Call(op, ret, arg, out, lock_after) ==
    [op |-> op, ret |-> ret, arg |-> arg, out |-> out, lock_after |-> lock_after,
     dirty_in |-> cur_conf_dirty, en_in |-> "HDMI_EN" \in ctl["HDMI_CON_0"]]

\* hdmi_probe, on success: the device
InitDev ==
    /\ cur_timings = hdmi_timings[HDMI_DEFAULT_TIMINGS_IDX + 1].dv_timings
    /\ cur_conf = hdmi_timings[HDMI_DEFAULT_TIMINGS_IDX + 1].hdmi_timings
    /\ cur_conf_dirty = 1
    /\ regs = RegsReset
    /\ ctl = CtlReset
    /\ sclk_hdmi = [parent |-> "sclk_pixel", enable |-> 0]
    /\ hdmiphy_clk = 0
    /\ regul = 0
    /\ rpm_active = FALSE
    /\ mhl_sd \in BOOLEAN
    /\ phy = [timings |-> NoTimings, stream |-> 0]
    /\ last = [op |-> "probe", ret |-> 0, arg |-> NoTimings, out |-> NoTimings,
               lock_after |-> 0, dirty_in |-> 1, en_in |-> FALSE]
    /\ log = <<>>

\* hdmi_probe, on success, with the record of the calls before the last
Init == InitDev /\ hist = <<"none", "none">>

\* hdmi_probe, on success, without that record
InitUntracked == InitDev /\ hist = <<"untracked", "untracked">>

\* the calls before the next one (where the record is kept)
Shift == hist' = IF hist[1] = "untracked" THEN hist ELSE <<hist[2], last.op>>

Dev == [dirty |-> cur_conf_dirty, regs |-> regs, ctl |-> ctl, phy |-> phy,
        clk |-> sclk_hdmi]

Power == [regul |-> regul, hdmiphy |-> hdmiphy_clk, clk |-> sclk_hdmi,
          regs |-> regs, ctl |-> ctl]

\* s_dv_timings
SetTimings(t) ==
    \E r \in {hdmi_s_dv_timings(
                 [conf |-> cur_conf, dirty |-> cur_conf_dirty, timings |-> cur_timings], t)} :
        /\ cur_conf' = r.conf
        /\ cur_conf_dirty' = r.dirty
        /\ cur_timings' = r.timings
        /\ last' = Call("s_dv_timings", r.ret, t, NoTimings, 0)
        /\ log' = <<>>
        /\ Shift
        /\ UNCHANGED <<regs, ctl, sclk_hdmi, hdmiphy_clk, regul, rpm_active, mhl_sd, phy>>

\* g_dv_timings
GetTimings ==
    /\ last' = Call("g_dv_timings", 0, NoTimings, hdmi_g_dv_timings(cur_timings), 0)
    /\ log' = <<>>
    /\ Shift
    /\ UNCHANGED <<cur_conf, cur_conf_dirty, cur_timings, regs, ctl, sclk_hdmi,
                   hdmiphy_clk, regul, rpm_active, mhl_sd, phy>>

\* s_stream(1), on a powered device, with the collaborators answering as one
\* of ins
StreamOnWith(ins) ==
    /\ rpm_active
    /\ \E in \in ins :
         \E r \in {hdmi_streamon(Dev, in)} :
             /\ cur_conf_dirty' = r.dirty
             /\ regs' = r.regs
             /\ ctl' = r.ctl
             /\ phy' = r.phy
             /\ sclk_hdmi' = r.clk
             /\ last' = Call("streamon", r.ret, NoTimings, NoTimings, in.lock_after)
             /\ log' = r.log
    /\ Shift
    /\ UNCHANGED <<cur_conf, cur_timings, hdmiphy_clk, regul, rpm_active, mhl_sd>>

StreamOn == StreamOnWith(StreamOnInputs(cur_conf_dirty, mhl_sd))

\* s_stream(0), on a powered device, with the collaborators answering as one
\* of ins
StreamOffWith(ins) ==
    /\ rpm_active
    /\ \E in \in ins :
         \E r \in {hdmi_streamoff(Dev, in)} :
             /\ cur_conf_dirty' = r.dirty
             /\ regs' = r.regs
             /\ ctl' = r.ctl
             /\ phy' = r.phy
             /\ sclk_hdmi' = r.clk
             /\ last' = Call("streamoff", r.ret, NoTimings, NoTimings, 0)
             /\ log' = r.log
    /\ Shift
    /\ UNCHANGED <<cur_conf, cur_timings, hdmiphy_clk, regul, rpm_active, mhl_sd>>

StreamOff == StreamOffWith(StreamOffInputs)

\* runtime suspend (s_power(0) dropping the last reference): the PM core
\* calls it on an active device only
RuntimeSuspend ==
    /\ rpm_active
    /\ \E mhl_ret \in SubdevRet :
         \E r \in {hdmi_runtime_suspend(Power, cur_conf_dirty, mhl_ret)} :
             /\ cur_conf_dirty' = r.dirty
             /\ regs' = r.pw.regs
             /\ ctl' = r.pw.ctl
             /\ sclk_hdmi' = r.pw.clk
             /\ hdmiphy_clk' = r.pw.hdmiphy
             /\ regul' = r.pw.regul
             /\ rpm_active' = FALSE
             /\ last' = Call("suspend", r.ret, NoTimings, NoTimings, 0)
             /\ log' = r.log
    /\ Shift
    /\ UNCHANGED <<cur_conf, cur_timings, mhl_sd, phy>>

\* runtime resume (s_power(1) taking the first reference): the PM core calls
\* it on a suspended device only, and the device stays suspended when it fails
RuntimeResume ==
    /\ ~rpm_active
    /\ \E regul_ret \in RegulRet, mhl_ret \in SubdevRet :
         \E r \in {hdmi_runtime_resume(Power, cur_conf_dirty, regul_ret, mhl_ret)} :
             /\ cur_conf_dirty' = r.dirty
             /\ regs' = r.pw.regs
             /\ ctl' = r.pw.ctl
             /\ sclk_hdmi' = r.pw.clk
             /\ hdmiphy_clk' = r.pw.hdmiphy
             /\ regul' = r.pw.regul
             /\ rpm_active' = (r.ret = 0)
             /\ last' = Call("resume", r.ret, NoTimings, NoTimings, 0)
             /\ log' = r.log
    /\ Shift
    /\ UNCHANGED <<cur_conf, cur_timings, mhl_sd, phy>>

\* enum_dv_timings, given one of es
EnumTimingsWith(es) ==
    /\ \E e \in es :
         \E r \in {subdev_enum_dv_timings(e)} :
             last' = Call("enum_dv_timings", r.ret, [pad |-> e.pad, index |-> e.index],
                          r.timings, 0)
    /\ log' = <<>>
    /\ Shift
    /\ UNCHANGED <<cur_conf, cur_conf_dirty, cur_timings, regs, ctl, sclk_hdmi,
                   hdmiphy_clk, regul, rpm_active, mhl_sd, phy>>

EnumTimings == EnumTimingsWith(EnumInputs)

\* dv_timings_cap, given one of caps
TimingsCapWith(caps) ==
    /\ \E cap \in caps :
         \E phy_cap \in PhyCaps(cap) :
             \E r \in {subdev_dv_timings_cap(cap, phy_cap)} :
                 last' = Call("dv_timings_cap", r.ret, cap, r.cap, 0)
    /\ log' = <<>>
    /\ Shift
    /\ UNCHANGED <<cur_conf, cur_conf_dirty, cur_timings, regs, ctl, sclk_hdmi,
                   hdmiphy_clk, regul, rpm_active, mhl_sd, phy>>

TimingsCap == TimingsCapWith(CapInputs)

\* g_mbus_fmt
GetFmt ==
    /\ \E r \in {hdmi_g_mbus_fmt(cur_conf)} :
           last' = Call("g_mbus_fmt", r.ret, NoTimings, r.fmt, 0)
    /\ log' = <<>>
    /\ Shift
    /\ UNCHANGED <<cur_conf, cur_conf_dirty, cur_timings, regs, ctl, sclk_hdmi,
                   hdmiphy_clk, regul, rpm_active, mhl_sd, phy>>

\* the interrupt line fires on a powered device.  `early' are the edges the
\* hardware latched since the last service, `late' those it latches while
\* the handler runs.
Irq ==
    /\ rpm_active
    /\ \E early \in SUBSET HpdFlags, late \in SUBSET HpdFlags :
         LET c == [ctl EXCEPT !["HDMI_INTC_FLAG"] = @ \cup early]
         IN  \E r \in {hdmi_irq_handler(c, late)} :
                 /\ ctl' = r.ctl
                 /\ last' = Call("irq", r.ret,
                                 [intc_flag |-> c["HDMI_INTC_FLAG"], late |-> late],
                                 NoTimings, 0)
                 /\ log' = r.log
    /\ Shift
    /\ UNCHANGED <<cur_conf, cur_conf_dirty, cur_timings, regs, sclk_hdmi,
                   hdmiphy_clk, regul, rpm_active, mhl_sd, phy>>

\* hdmi_timing_apply called with a struct of the caller's making
TimingApply ==
    \E t \in SynthTimings :
      \E r \in {hdmi_timing_apply_struct(regs, ctl, t)} :
        /\ regs' = r.regs
        /\ ctl' = r.ctl
        /\ last' = Call("hdmi_timing_apply", 0, t, NoTimings, 0)
        /\ log' = <<>>
        /\ Shift
        /\ UNCHANGED <<cur_conf, cur_conf_dirty, cur_timings, sclk_hdmi,
                       hdmiphy_clk, regul, rpm_active, mhl_sd, phy>>

\* s_dv_timings with the descriptor of a catalog entry, as it stands there
CatalogSetTimings == \E i \in 1..ARRAY_SIZE : SetTimings(hdmi_timings[i].dv_timings)

\* hdmi_timing_apply(hdev, hdev->cur_conf), as hdmi_conf_apply calls it
ApplyCurrent ==
    \E r \in {hdmi_timing_apply(regs, ctl, cur_conf)} :
        /\ regs' = r.regs
        /\ ctl' = r.ctl
        /\ last' = Call("hdmi_timing_apply", 0, NoTimings, NoTimings, 0)
        /\ log' = <<>>
        /\ Shift
        /\ UNCHANGED <<cur_conf, cur_conf_dirty, cur_timings, sclk_hdmi,
                       hdmiphy_clk, regul, rpm_active, mhl_sd, phy>>

SetStreamTimings == \E t \in StreamDescs : SetTimings(t)

SetAnyTimings == \E t \in AllDescs : SetTimings(t)

Next ==
    \/ SetStreamTimings
    \/ GetTimings
    \/ StreamOn
    \/ StreamOff
    \/ RuntimeSuspend
    \/ RuntimeResume

Spec == Init /\ [][Next]_vars

\* mode selection alone, over every catalog entry and every flag combination
NextTimings ==
    \/ SetAnyTimings
    \/ GetTimings

SpecTimings == Init /\ [][NextTimings]_vars

\* the queries of the subdev, with mode selection
NextQuery ==
    \/ SetAnyTimings
    \/ GetTimings
    \/ EnumTimings
    \/ TimingsCap
    \/ GetFmt

SpecQuery == Init /\ [][NextQuery]_vars

\* Every entry point of the driver, the interrupt handler included, each with
\* few inputs: the default mode, the interlaced mode and an unsupported one;
\* a PHY that locks at once or not at all; the first catalog index and the
\* first one past the end.
DriverDescs ==
    {hdmi_timings[HDMI_DEFAULT_TIMINGS_IDX + 1].dv_timings,
     V4L2_DV_BT_CEA_1920X1080I60, V4L2_DV_BT_CEA_1920X1080P25}

DriverSetTimings == \E t \in DriverDescs : SetTimings(t)

DriverStreamOn ==
    StreamOnWith({in \in StreamOnInputs(cur_conf_dirty, mhl_sd) :
                    in.lock_after \in {0, PHY_TRIES}})

DriverStreamOff == StreamOffWith({in \in StreamOffInputs : in.mhl_ret = in.off_ret})

DriverEnumTimings ==
    EnumTimingsWith({e \in EnumInputs : e.pad = 0 /\ e.index \in {0, ARRAY_SIZE}})

DriverTimingsCap == TimingsCapWith({cap \in CapInputs : cap.pad = 0})

NextDriver ==
    \/ DriverSetTimings
    \/ GetTimings
    \/ DriverStreamOn
    \/ DriverStreamOff
    \/ RuntimeSuspend
    \/ RuntimeResume
    \/ DriverEnumTimings
    \/ DriverTimingsCap
    \/ GetFmt
    \/ Irq

SpecDriver == InitUntracked /\ [][NextDriver]_vars

\* the register programmer alone, over structs of the caller's making
NextApply == TimingApply

SpecApply == InitUntracked /\ [][NextApply]_vars

\* the register programmer over the catalog: any entry selected, then programmed
NextCatalog ==
    \/ CatalogSetTimings
    \/ ApplyCurrent

SpecCatalog == InitUntracked /\ [][NextCatalog]_vars

----
\* reading the record of a call

\* the positions of step e with argument a in a log
At(l, e, a) == {k \in 1..Len(l) : l[k].ev = e /\ l[k].arg = a}

Did(l, e, a) == At(l, e, a) # {}

\* the steps named e, whatever their argument
Steps(l, e) == {k \in 1..Len(l) : l[k].ev = e}

\* the names of the steps of a mode-apply
ApplyEvs == {ApplySteps(0)[k].ev : k \in 1..Len(ApplySteps(0))}

\* no step of a mode-apply was taken
NoApply(l) == \A k \in 1..Len(l) : l[k].ev \notin ApplyEvs

\* the steps that come after the PHY's timings call in a mode-apply
LaterApplyEvs == {"HDMI_CORE_SW_RSTOUT", "hdmi_reg_init", "hdmi_timing_apply", "cur_conf_dirty"}

\* the clock and output-enable steps of a start
ClockEvs == {"clk_disable", "clk_set_parent.sclk_hdmiphy", "clk_set_parent.sclk_pixel", "clk_enable"}

EnableEvs == {"HDMI_EN", "HDMI_TG_EN"}

\* the output-enable bits and the shared clock's parent
CoreEnabled == "HDMI_EN" \in ctl["HDMI_CON_0"]

TgEnabled == "HDMI_TG_EN" \in ctl["HDMI_TG_CMD"]

Idle == ~CoreEnabled /\ ~TgEnabled /\ sclk_hdmi.parent = "sclk_pixel"

\* the PHY rejected the timings during the call
Rejected(l) == \E k \in Steps(l, "phy.s_dv_timings") : l[k].ret # 0

\* the call ran a whole mode-apply before anything else
FullApplyFirst(l) == Len(l) >= 8 /\ SubSeq(l, 1, 8) = ApplySteps(0)

\* the hardware timing registers hold what hdmi_timing_apply writes for conf
Programmed(conf) ==
    /\ \A k \in 1..Len(TimingWrites[conf]) :
         LET w == TimingWrites[conf][k]
         IN  regs[w[1]] = w[3] % (2 ^ (8 * w[2]))
    /\ ("HDMI_TG_FIELD_EN" \in ctl["HDMI_TG_CMD"]) = (TimingsOf(conf).interlaced # 0)

----
\* C1: every failed start-stream (hdmi_streamon returning non-zero) leaves the
\* device Idle: HDMI_EN and HDMI_TG_EN clear and the shared clock's parent the
\* pixel source, from every state start-stream can be invoked in, a device
\* that is already streaming included.
C1_FailedStartLeavesIdle ==
    (last.op = "streamon" /\ last.ret # 0) => Idle

\* C2: a start on a PHY that never shows the ready bit samples the status
\* PHY_TRIES times, then tells the PHY to stop, ignores that call's result and
\* returns -EIO, without starting the repeater, touching the shared clock or
\* the enable bits; a PHY ready on any of the PHY_TRIES samples, the last one
\* included, lets the start go on to the repeater.
C2_Polled == last'.op = "streamon" /\ Steps(log', "HDMI_PHY_STATUS") # {}

C2_Step ==
    C2_Polled =>
      LET k == CHOOSE k \in Steps(log', "HDMI_PHY_STATUS") : TRUE
      IN  /\ Cardinality(Steps(log', "HDMI_PHY_STATUS")) = 1
          /\ log'[k].arg <= PHY_TRIES
          /\ last'.lock_after >= PHY_TRIES =>
               /\ log'[k].arg = PHY_TRIES
               /\ log'[k].ret = 0
               /\ Len(log') = k + 1
               /\ log'[k + 1].ev = "phy.s_stream" /\ log'[k + 1].arg = 0
               /\ last'.ret = -EIO
               /\ \A j \in 1..Len(log') :
                    log'[j].ev \notin ClockEvs \cup EnableEvs \cup {"mhl.s_stream"}
               /\ sclk_hdmi' = sclk_hdmi
               /\ CoreEnabled' = CoreEnabled /\ TgEnabled' = TgEnabled
          /\ last'.lock_after < PHY_TRIES =>
               /\ log'[k].arg = last'.lock_after + 1
               /\ log'[k].ret = 1
               /\ Len(log') > k
               /\ log'[k + 1].ev = "mhl.s_stream" /\ log'[k + 1].arg = 1

C2_PhyLockTimeout == [][C2_Step]_vars

\* C2 witness: a start timed out after PHY_TRIES samples, and the stop it then
\* sent to the PHY failed.
C2_Witness ==
    /\ last.op = "streamon" /\ last.ret = -EIO /\ last.lock_after = PHY_TRIES
    /\ \E k \in At(log, "HDMI_PHY_STATUS", PHY_TRIES) : log[k].ret = 0
    /\ \E k \in At(log, "phy.s_stream", 0) : log[k].ret # 0

\* C3: stop-stream always ends with HDMI_EN and HDMI_TG_EN clear and the
\* shared clock on the pixel source, and returns 0, whatever the repeater and
\* PHY stop calls return and whether or not a repeater is configured.
C3_StopAlwaysIdle ==
    last.op = "streamoff" => (Idle /\ last.ret = 0)

\* C3 witness: a streaming device with a repeater was stopped, and both stop
\* calls failed.
C3_Witness ==
    /\ last.op = "streamoff" /\ last.en_in /\ mhl_sd
    /\ \E k \in At(log, "mhl.s_stream", 0) : log[k].ret # 0
    /\ \E k \in At(log, "phy.s_stream", 0) : log[k].ret # 0

\* C4: mode-apply does nothing and succeeds when dirty is clear: a start that
\* finds dirty clear takes no step of the apply sequence, leaves the timing
\* registers, the reset bits and the PHY's timings alone; only set_timings and
\* suspend set dirty again; and the apply that cleared it ran each step once.
C4_Step ==
    /\ (last'.op = "streamon" /\ cur_conf_dirty = 0) =>
         /\ NoApply(log')
         /\ regs' = regs
         /\ \A r \in BitRegs \ {"HDMI_CON_0", "HDMI_TG_CMD"} : ctl'[r] = ctl[r]
         /\ phy'.timings = phy.timings
         /\ cur_conf_dirty' = 0
    /\ (cur_conf_dirty = 0 /\ last'.op \notin {"s_dv_timings", "suspend"}) =>
         cur_conf_dirty' = 0
    /\ (last'.op = "streamon" /\ cur_conf_dirty = 1 /\ cur_conf_dirty' = 0) =>
         /\ FullApplyFirst(log')
         /\ \A k \in 9..Len(log') : log'[k].ev \notin ApplyEvs

C4_ApplyIdempotent == [][C4_Step]_vars

\* C4 witness: two starts in a row after a resume; the first applied the mode,
\* the second found dirty clear and applied nothing.
C4_Witness ==
    /\ last.op = "streamon" /\ hist = <<"resume", "streamon">>
    /\ last.dirty_in = 0 /\ last.ret = 0 /\ NoApply(log)

\* C5: resume never changes dirty; a suspend followed at once by a successful
\* resume leaves dirty set; and the start that follows runs the whole apply
\* sequence (PHY reset, PHY set-timings, core reset, register init, timing
\* programming) before it starts the PHY.
C5_Step ==
    /\ last'.op = "resume" => cur_conf_dirty' = cur_conf_dirty
    /\ (last.op = "suspend" /\ last'.op = "resume" /\ last'.ret = 0) =>
         cur_conf_dirty' = 1
    /\ (hist[2] = "suspend" /\ last.op = "resume" /\ last'.op = "streamon") =>
         /\ last'.dirty_in = 1
         /\ Len(log') >= 3 /\ SubSeq(log', 1, 2) = SubSeq(ApplySteps(0), 1, 2)
         /\ log'[3].ev = "phy.s_dv_timings"
         /\ \A k \in At(log', "phy.s_stream", 1) : FullApplyFirst(log') /\ k = 9

C5_SuspendResumeReapplies == [][C5_Step]_vars

\* C5 witness: suspend, resume, start, and the start ran the whole apply
\* sequence and then started the PHY.
C5_Witness ==
    /\ last.op = "streamon" /\ hist = <<"suspend", "resume">>
    /\ FullApplyFirst(log) /\ Did(log, "phy.s_stream", 1)
    /\ last.ret = 0

\* C6: set_timings with a descriptor no catalog entry matches fails with
\* -EINVAL and leaves cur_conf, cur_conf_dirty and cur_timings as they were; a
\* get_timings that follows hands back the descriptor held before the failed
\* call, and a start that follows finds the dirty flag it would have found.
C6_NoMatch(t) ==
    \A i \in 1..ARRAY_SIZE :
       \/ hdmi_timings[i].dv_timings.width # t.width
       \/ hdmi_timings[i].dv_timings.height # t.height
       \/ hdmi_timings[i].dv_timings.interlaced # t.interlaced
       \/ hdmi_timings[i].dv_timings.pixelclock # t.pixelclock
       \/ hdmi_timings[i].dv_timings.hfrontporch # t.hfrontporch

C6_Step ==
    /\ (last'.op = "s_dv_timings" /\ C6_NoMatch(last'.arg)) =>
         /\ last'.ret = -EINVAL
         /\ UNCHANGED <<cur_conf, cur_conf_dirty, cur_timings>>
    /\ (last'.op = "s_dv_timings" /\ last'.ret # 0) =>
         /\ last'.ret = -EINVAL
         /\ UNCHANGED <<cur_conf, cur_conf_dirty, cur_timings, regs, ctl, phy>>
    /\ (last.op = "s_dv_timings" /\ last.ret # 0 /\ last'.op = "g_dv_timings") =>
         last'.out = cur_timings
    /\ (last.op = "s_dv_timings" /\ last.ret # 0 /\ last'.op = "streamon") =>
         /\ last'.dirty_in = last.dirty_in
         /\ (last.dirty_in = 0 => NoApply(log'))

C6_UnsupportedModeNoChange == [][C6_Step]_vars

\* C6 witness: a mode other than the default was applied by a start, then an
\* unsupported descriptor was refused and the dirty flag is still clear.
C6_Witness ==
    /\ last.op = "s_dv_timings" /\ last.ret = -EINVAL
    /\ last.arg = V4L2_DV_BT_CEA_1920X1080P25
    /\ hist[2] = "streamon"
    /\ cur_conf_dirty = 0
    /\ cur_conf = "hdmi_timings_1080i60"

\* C7: for every catalog entry, a set_timings with a descriptor of that entry
\* succeeds, and the get_timings that follows hands back that very descriptor,
\* with V4L2_DV_FL_CAN_REDUCE_FPS cleared when the entry's reduced_fps is false
\* and every flag as passed in when it is true.
C7_Entries(t) ==
    {i \in 1..ARRAY_SIZE :
        [hdmi_timings[i].dv_timings EXCEPT !.flags = {}] = [t EXCEPT !.flags = {}]}

C7_Step ==
    /\ (last'.op = "s_dv_timings" /\ C7_Entries(last'.arg) # {}) => last'.ret = 0
    /\ (last.op = "s_dv_timings" /\ last.ret = 0 /\ last'.op = "g_dv_timings") =>
         /\ Cardinality(C7_Entries(last.arg)) = 1
         /\ \A i \in C7_Entries(last.arg) :
              /\ hdmi_timings[i].reduced_fps => last'.out = last.arg
              /\ ~hdmi_timings[i].reduced_fps =>
                   /\ CAN_REDUCE_FPS \notin last'.out.flags
                   /\ last'.out.flags = last.arg.flags \ {CAN_REDUCE_FPS}
                   /\ [last'.out EXCEPT !.flags = {}] = [last.arg EXCEPT !.flags = {}]

C7_SetGetRoundTrip == [][C7_Step]_vars

\* C7 witness: the reduced-fps entry (1280x720p60) was set with both flags
\* raised, and get_timings handed both back.
C7_Witness ==
    /\ last.op = "g_dv_timings" /\ hist[2] = "s_dv_timings"
    /\ last.out = WithFlags(V4L2_DV_BT_CEA_1280X720P60, {CAN_REDUCE_FPS, HALF_LINE})
    /\ cur_conf = "hdmi_timings_720p60"

\* C8: in every reachable state, the shared clock's parent being the
\* PHY-recovered source implies that the PHY was last told to stream.
C8_PhyClockOnlyWhileStreaming ==
    sclk_hdmi.parent = "sclk_hdmiphy" => phy.stream = 1

\* C9: when mode-apply runs with dirty set and the PHY rejects the timings,
\* the PHY's error is returned, dirty stays set and no later step has
\* happened: no core reset, no register init, no timing register written; a
\* start retried right after runs the sequence again from the PHY reset.
C9_Step ==
    /\ (last'.op = "streamon" /\ Rejected(log')) =>
         /\ cur_conf_dirty = 1 /\ cur_conf_dirty' = 1
         /\ Len(log') = 3
         /\ last'.ret = log'[3].ret
         /\ \A k \in 1..Len(log') : log'[k].ev \notin LaterApplyEvs
         /\ regs' = regs
         /\ \A r \in BitRegs \ {"HDMI_PHY_RSTOUT"} : ctl'[r] = ctl[r]
         /\ UNCHANGED <<sclk_hdmi, cur_conf, cur_timings>>
    /\ (last.op = "streamon" /\ Rejected(log) /\ last'.op = "streamon") =>
         /\ Len(log') >= 3
         /\ SubSeq(log', 1, 2) = SubSeq(ApplySteps(0), 1, 2)
         /\ log'[3].ev = "phy.s_dv_timings"
         /\ (log'[3].ret = 0 => FullApplyFirst(log') /\ Programmed(cur_conf)')

C9_PhyRejectAborts == [][C9_Step]_vars

\* C9 witness: a start was refused by the PHY, and the start retried right
\* after it was refused again: dirty is still set.
C9_Witness ==
    /\ last.op = "streamon" /\ hist[2] = "streamon"
    /\ Rejected(log) /\ last.ret = -EINVAL
    /\ cur_conf_dirty = 1

\* C10: in every reachable state, dirty clear implies that the timing
\* registers hold exactly what hdmi_timing_apply writes for cur_conf and that
\* the PHY holds cur_timings.
C10_CleanMeansProgrammed ==
    cur_conf_dirty = 0 => (Programmed(cur_conf) /\ phy.timings = cur_timings)

\* C10 witness: the interlaced mode is applied and the device went through a
\* suspend and resume before.
C10_Witness ==
    /\ cur_conf_dirty = 0
    /\ cur_conf = "hdmi_timings_1080i60"
    /\ regs["HDMI_TG_V_FSZ_L"] = 1125
    /\ hist[1] = "suspend"

\* the device is streaming: both output-enable bits set, the shared clock on
\* the PHY-recovered source
Streaming == CoreEnabled /\ TgEnabled /\ sclk_hdmi.parent = "sclk_hdmiphy"

\* C11: a start on a device that is already streaming and a stop on a device
\* that is already idle change nothing: after the call the enable bits, the
\* shared clock's parent, its enable count and dirty are what they were before.
C11_Step ==
    ((last'.op = "streamon" /\ Streaming) \/ (last'.op = "streamoff" /\ Idle)) =>
        /\ CoreEnabled' = CoreEnabled
        /\ TgEnabled' = TgEnabled
        /\ sclk_hdmi'.parent = sclk_hdmi.parent
        /\ sclk_hdmi'.enable = sclk_hdmi.enable
        /\ cur_conf_dirty' = cur_conf_dirty

C11_RedundantCallsChangeNothing == [][C11_Step]_vars

\* the steps of hdmi_resource_poweroff, in order
PowerOffEvs == <<"clk_disable", "clk_disable.hdmiphy", "regulator_bulk_disable">>

\* the names of the steps from position a to position b of a log
EvNames(l, a, b) == [k \in 1..(b - a + 1) |-> l[a + k - 1].ev]

\* C12: a resume whose regulator enable fails returns that error and makes no
\* call to the repeater; a resume whose power-on succeeded and whose
\* configured repeater fails to power on runs power-off, returns the
\* repeater's error and leaves the regulators, the PHY-power clock and the
\* shared clock as disabled as they were; with no repeater the result of the
\* repeater call is ignored and resume succeeds.
C12_Step ==
    last'.op = "resume" =>
      /\ log'[1].ev = "regulator_bulk_enable"
      /\ log'[1].ret < 0 =>
           /\ last'.ret = log'[1].ret
           /\ Steps(log', "mhl.s_power") = {}
           /\ ~rpm_active'
      /\ log'[1].ret >= 0 =>
           /\ Cardinality(Steps(log', "mhl.s_power")) = 1
           /\ \A k \in Steps(log', "mhl.s_power") :
                /\ log'[k].arg = 1
                /\ (mhl_sd /\ log'[k].ret # 0) =>
                     /\ last'.ret = log'[k].ret
                     /\ Len(log') = k + 3
                     /\ EvNames(log', k + 1, k + 3) = PowerOffEvs
                     /\ regul' = regul
                     /\ hdmiphy_clk' = hdmiphy_clk
                     /\ sclk_hdmi'.enable = sclk_hdmi.enable
                     /\ ~rpm_active'
                /\ (mhl_sd /\ log'[k].ret = 0) =>
                     last'.ret = 0 /\ Len(log') = k /\ rpm_active'
                /\ ~mhl_sd =>
                     /\ log'[k].ret = -ENODEV
                     /\ last'.ret = 0 /\ Len(log') = k /\ rpm_active'

C12_ResumeErrorHandling == [][C12_Step]_vars

\* C12 witness: a device with a repeater was suspended, and the resume that
\* followed powered on, was refused by the repeater and powered off again.
C12_Witness ==
    /\ last.op = "resume" /\ hist[2] = "suspend" /\ mhl_sd
    /\ last.ret = -EIO
    /\ \E k \in At(log, "mhl.s_power", 1) : log[k].ret = -EIO
    /\ Steps(log, "regulator_bulk_disable") # {}
    /\ regul = 0 /\ hdmiphy_clk = 0 /\ sclk_hdmi.enable = 0

\* C13: power-on whose regulator enable fails returns that error, enables no
\* clock and changes no clock parent; power-on whose regulator enable
\* succeeds enables the PHY-power clock, sets the shared clock's parent to the
\* pixel source and enables the shared clock, in that order, and succeeds
\* (resume goes on to the repeater).
C13_Step ==
    last'.op = "resume" =>
      /\ log'[1].ev = "regulator_bulk_enable"
      /\ log'[1].ret < 0 =>
           /\ Len(log') = 1
           /\ last'.ret = log'[1].ret
           /\ UNCHANGED <<sclk_hdmi, hdmiphy_clk, regul>>
      /\ log'[1].ret >= 0 =>
           /\ Len(log') >= 5
           /\ EvNames(log', 2, 4) =
                <<"clk_enable.hdmiphy", "clk_set_parent.sclk_pixel", "clk_enable">>
           /\ log'[5].ev = "mhl.s_power"
           /\ sclk_hdmi'.parent = "sclk_pixel"
           /\ last'.ret = 0 =>
                /\ regul' = regul + 1
                /\ hdmiphy_clk' = hdmiphy_clk + 1
                /\ sclk_hdmi'.enable = sclk_hdmi.enable + 1

C13_PowerOnAtomic == [][C13_Step]_vars

\* C13 witness: a streaming device was suspended and the resume that followed
\* failed at the regulators: the shared clock is still off and still on the
\* PHY-recovered source.
C13_Witness ==
    /\ last.op = "resume" /\ last.ret = -EINVAL
    /\ Len(log) = 1 /\ log[1].ret = -EINVAL
    /\ sclk_hdmi = [parent |-> "sclk_hdmiphy", enable |-> 0]
    /\ hdmiphy_clk = 0 /\ regul = 0

\* the edges an interrupt reported, from the steps of the handler
Reported(l) == {l[k].arg : k \in Steps(l, "pr_info")}

\* the flag a report names
FlagOf(report) ==
    IF report = "unplugged" THEN HDMI_INTC_FLAG_HPD_UNPLUG ELSE HDMI_INTC_FLAG_HPD_PLUG

\* C14: the handler acknowledges each hot-plug edge on its own: the value it
\* writes to HDMI_INTC_FLAG after reporting an edge holds that edge's flag and
\* no other; both flags are looked at on every invocation (an edge is
\* reported exactly when its flag was set in the value read); and the handler
\* always returns IRQ_HANDLED.
C14_Step ==
    last'.op = "irq" =>
      /\ last'.ret = IRQ_HANDLED
      /\ Reported(log') = {r \in {"unplugged", "plugged"} : FlagOf(r) \in last'.arg.intc_flag}
      /\ \A k \in Steps(log', "HDMI_INTC_FLAG") :
           /\ k > 1 /\ log'[k - 1].ev = "pr_info"
           /\ log'[k].arg = {FlagOf(log'[k - 1].arg)}

C14_AckEachEdgeAlone == [][C14_Step]_vars

\* the catalog entry at C index i as enum_dv_timings is to hand it back
C16_Entry(i) ==
    IF hdmi_timings[i + 1].reduced_fps
    THEN hdmi_timings[i + 1].dv_timings
    ELSE [hdmi_timings[i + 1].dv_timings EXCEPT !.flags = @ \ {CAN_REDUCE_FPS}]

\* C16: enum_dv_timings on pad 0 succeeds for every index below the catalog's
\* length and hands back the entry at that position, with
\* V4L2_DV_FL_CAN_REDUCE_FPS cleared when the entry's reduced_fps is false; it
\* fails with -EINVAL for the catalog's length and every larger index; and it
\* never changes cur_conf, cur_conf_dirty or cur_timings.
C16_Step ==
    (last'.op = "enum_dv_timings" /\ last'.arg.pad = 0) =>
      /\ last'.arg.index < ARRAY_SIZE =>
           last'.ret = 0 /\ last'.out = C16_Entry(last'.arg.index)
      /\ last'.arg.index >= ARRAY_SIZE => last'.ret = -EINVAL
      /\ UNCHANGED <<cur_conf, cur_conf_dirty, cur_timings>>

C16_EnumInTableOrder == [][C16_Step]_vars

\* a start and a stop with every collaborator answering 0
C15_StartOk == [tim_ret |-> 0, on_ret |-> 0, lock_after |-> 0, mhl_ret |-> 0, off_ret |-> 0]

C15_StopOk == [mhl_ret |-> 0, off_ret |-> 0]

\* C15: the interrupt handler and the configuration path share no state: the
\* handler writes none of cur_conf, cur_conf_dirty, cur_timings and no
\* register but HDMI_INTC_FLAG; a start (with its mode-apply) and a stop never
\* write HDMI_INTC_FLAG; and a start or stop run after the handler gives the
\* device state and configuration registers it gives when run before it.
C15_Step ==
    /\ last'.op = "irq" =>
         /\ UNCHANGED <<cur_conf, cur_conf_dirty, cur_timings, regs, sclk_hdmi,
                        hdmiphy_clk, regul, phy>>
         /\ \A r \in BitRegs \ {"HDMI_INTC_FLAG"} : ctl'[r] = ctl[r]
         /\ hdmi_streamon(Dev', C15_StartOk) =
              [hdmi_streamon(Dev, C15_StartOk) EXCEPT
                 !.ctl["HDMI_INTC_FLAG"] = ctl'["HDMI_INTC_FLAG"]]
         /\ hdmi_streamoff(Dev', C15_StopOk) =
              [hdmi_streamoff(Dev, C15_StopOk) EXCEPT
                 !.ctl["HDMI_INTC_FLAG"] = ctl'["HDMI_INTC_FLAG"]]
    /\ last'.op \in {"streamon", "streamoff"} =>
         ctl'["HDMI_INTC_FLAG"] = ctl["HDMI_INTC_FLAG"]

C15_IrqSharesNoState == [][C15_Step]_vars

\* C15 witness: a mode was applied with a plug flag pending, and the handler
\* then served an unplug on the streaming device.
C15_Witness ==
    /\ last.op = "irq" /\ Streaming /\ cur_conf_dirty = 0
    /\ HDMI_INTC_FLAG_HPD_UNPLUG \in last.arg.intc_flag
    /\ Steps(log, "HDMI_INTC_FLAG") # {}
    /\ Programmed(cur_conf)

\* the 12-bit field of a register value that starts at bit k
Field12(v, k) == (v \div (2 ^ k)) % 4096

\* C17 as amended: hdmi_timing_apply hands the timing generator's
\* active-size registers the low two bytes of hact.end - hact.beg and of
\* vact[0].end - vact[0].beg, which are the differences themselves when these
\* are below 2^16 (800 and 500 for hact = {100, 900}, vact[0] = {10, 510});
\* and when interlaced and hsyn.beg + vsyn_off is below 2^12, both
\* vsync-transition fields of HDMI_V_SYNC_GEN_3_0 hold that sum.
C17_ActiveSizeAndVsyncTransition ==
    last.op = "hdmi_timing_apply" =>
        LET t == last.arg
            h == t.hact.end - t.hact.beg
            v == t.vact[1].end - t.vact[1].beg
            vsyn_trans == t.hsyn.beg + t.vsyn_off
        IN  /\ regs["HDMI_TG_HACT_SZ_L"] = h % 65536
            /\ regs["HDMI_TG_VACT_SZ_L"] = v % 65536
            /\ h < 65536 => regs["HDMI_TG_HACT_SZ_L"] = h
            /\ v < 65536 => regs["HDMI_TG_VACT_SZ_L"] = v
            /\ (t.hact = Pulse(100, 900) /\ t.vact[1] = Pulse(10, 510)) =>
                  /\ regs["HDMI_TG_HACT_SZ_L"] = 800
                  /\ regs["HDMI_TG_VACT_SZ_L"] = 500
            /\ (t.interlaced # 0 /\ vsyn_trans < 4096) =>
                  /\ Field12(regs["HDMI_V_SYNC_GEN_3_0"], 0) = vsyn_trans
                  /\ Field12(regs["HDMI_V_SYNC_GEN_3_0"], 12) = vsyn_trans

\* C17 witness: the interlaced struct with hact = {100, 900},
\* vact[0] = {10, 510} and a field offset of 1100 has been programmed.
C17_Witness ==
    /\ last.op = "hdmi_timing_apply"
    /\ last.arg.hact = Pulse(100, 900) /\ last.arg.vact[1] = Pulse(10, 510)
    /\ last.arg.interlaced = 1 /\ last.arg.vsyn_off = 1100
    /\ regs["HDMI_TG_HACT_SZ_L"] = 800 /\ regs["HDMI_TG_VACT_SZ_L"] = 500
    /\ Field12(regs["HDMI_V_SYNC_GEN_3_0"], 0) = last.arg.hsyn.beg + 1100

\* C17 as stated: for every struct with beg < end the active-size registers
\* receive the differences, and when interlaced both vsync-transition fields
\* receive hsyn.beg + vsyn_off.
C17_Original ==
    last.op = "hdmi_timing_apply" =>
        LET t == last.arg
            vsyn_trans == t.hsyn.beg + t.vsyn_off
        IN  /\ regs["HDMI_TG_HACT_SZ_L"] = t.hact.end - t.hact.beg
            /\ regs["HDMI_TG_VACT_SZ_L"] = t.vact[1].end - t.vact[1].beg
            /\ t.interlaced # 0 =>
                  /\ Field12(regs["HDMI_V_SYNC_GEN_3_0"], 0) = vsyn_trans
                  /\ Field12(regs["HDMI_V_SYNC_GEN_3_0"], 12) = vsyn_trans

\* the operations C18 lists as leaving cur_conf, cur_conf_dirty and
\* cur_timings alone, suspend apart
C18_Readers ==
    {"streamoff", "g_dv_timings", "enum_dv_timings", "dv_timings_cap",
     "g_mbus_fmt", "resume", "irq"}

\* what C18 says of probe, s_dv_timings and a start in any step
C18_Writers ==
    /\ last'.op = "s_dv_timings" =>
         \/ UNCHANGED <<cur_conf, cur_conf_dirty, cur_timings>>
         \/ cur_conf_dirty' = 1
    /\ last'.op = "streamon" =>
         /\ UNCHANGED <<cur_conf, cur_timings>>
         /\ \/ cur_conf_dirty' = cur_conf_dirty
            \/ cur_conf_dirty' = 0 /\ Did(log', "cur_conf_dirty", 0)
    /\ last'.op \in C18_Readers => UNCHANGED <<cur_conf, cur_conf_dirty, cur_timings>>

C18_AtProbe ==
    /\ cur_conf = hdmi_timings[1].hdmi_timings
    /\ cur_timings = hdmi_timings[1].dv_timings
    /\ cur_conf_dirty = 1

\* C18 as amended: after probe cur_conf and cur_timings are entry 0 of the
\* table and cur_conf_dirty is 1; afterwards the three are changed only by
\* s_dv_timings (which sets cur_conf_dirty), by the mode-apply of a start
\* (which clears it) and by runtime suspend (which sets cur_conf_dirty and
\* leaves the other two alone); a stop, g_dv_timings, enum_dv_timings,
\* dv_timings_cap, g_mbus_fmt, runtime resume and the interrupt handler leave
\* all three unchanged.
C18_Lifecycle ==
    /\ C18_AtProbe
    /\ [][/\ C18_Writers
          /\ last'.op = "suspend" =>
               /\ cur_conf_dirty' = 1
               /\ UNCHANGED <<cur_conf, cur_timings>>]_vars

\* C18 witness: a device whose mode was selected and applied has been
\* suspended, and the suspend turned cur_conf_dirty from 0 to 1.
C18_Witness ==
    /\ last.op = "suspend" /\ last.dirty_in = 0 /\ cur_conf_dirty = 1
    /\ cur_conf # hdmi_timings[1].hdmi_timings

\* C18 as stated: suspend too leaves all three unchanged.
C18_Original ==
    /\ C18_AtProbe
    /\ [][/\ C18_Writers
          /\ last'.op = "suspend" =>
               UNCHANGED <<cur_conf, cur_conf_dirty, cur_timings>>]_vars

\* the steps C19 names, in the order it names them
C19_Order ==
    << <<"HDMI_PHY_SW_RSTOUT", 1>>, <<"HDMI_PHY_SW_RSTOUT", 0>>,
       <<"phy.s_dv_timings", 0>>,
       <<"HDMI_CORE_SW_RSTOUT", 0>>, <<"HDMI_CORE_SW_RSTOUT", 1>>,
       <<"hdmi_reg_init", 0>>, <<"hdmi_timing_apply", 0>>,
       <<"cur_conf_dirty", 0>> >>

\* C19: within one dirty mode-apply that the PHY accepts, the steps are, in
\* order: PHY reset asserted, then released; PHY s_dv_timings with
\* cur_timings; core reset written 0, then 1; hdmi_reg_init;
\* hdmi_timing_apply with cur_conf; cur_conf_dirty = 0.  The flag is 1 after
\* each step but the last, the timing registers have their final values
\* before it is cleared, and clearing it changes nothing else.
C19_Step ==
    (last'.op = "streamon" /\ last'.dirty_in = 1 /\ ~Rejected(log')) =>
        LET tr == hdmi_conf_apply_trace(Dev, 0)
        IN  /\ Len(log') >= 8
            /\ [k \in 1..8 |-> <<log'[k].ev, log'[k].arg>>] = C19_Order
            /\ Len(tr) = 8
            /\ "HDMI_PHY_SW_RSTOUT" \in tr[1].ctl["HDMI_PHY_RSTOUT"]
            /\ "HDMI_PHY_SW_RSTOUT" \notin tr[2].ctl["HDMI_PHY_RSTOUT"]
            /\ tr[2].phy = phy /\ tr[3].phy.timings = cur_timings
            /\ "HDMI_CORE_SW_RSTOUT" \notin tr[4].ctl["HDMI_CORE_RSTOUT"]
            /\ "HDMI_CORE_SW_RSTOUT" \in tr[5].ctl["HDMI_CORE_RSTOUT"]
            /\ tr[5].regs = regs
            /\ HDMI_INTC_EN_BITS \subseteq tr[6].ctl["HDMI_INTC_CON"]
            /\ \A r \in TgRegs \cup CoreSyncRegs : tr[6].regs[r] = regs[r]
            /\ tr[7].regs = regs' /\ Programmed(cur_conf)'
            /\ \A k \in 1..7 : tr[k].dirty = 1
            /\ tr[8] = [tr[7] EXCEPT !.dirty = 0]
            /\ cur_conf_dirty' = 0

C19_ApplyOrderDirtyLast == [][C19_Step]_vars

\* C19 witness: a mode other than the default was applied by a start that
\* found the device dirty, and the start went on to enable the output.
C19_Witness ==
    /\ last.op = "streamon" /\ last.dirty_in = 1 /\ last.ret = 0
    /\ Len(log) > 8 /\ log[8] = Ev("cur_conf_dirty", 0, 0)
    /\ cur_conf # hdmi_timings[1].hdmi_timings
    /\ cur_conf_dirty = 0 /\ Streaming

\* the position of the one step e in a log (0 when it is not there)
C20_Pos(l, e) == IF Steps(l, e) = {} THEN 0 ELSE CHOOSE k \in Steps(l, e) : TRUE

\* the steps named are all in the log, each once, in this order
C20_InOrder(l, evs) ==
    /\ \A i \in 1..Len(evs) : Cardinality(Steps(l, evs[i])) = 1
    /\ \A i \in 1..(Len(evs) - 1) : C20_Pos(l, evs[i]) < C20_Pos(l, evs[i + 1])

\* whether bit e is set just before step k of a call that found it as on_entry
C20_SetBefore(l, k, e, on_entry) ==
    LET before == {j \in Steps(l, e) : j < k}
    IN  IF before = {} THEN on_entry
        ELSE l[CHOOSE j \in before : \A i \in before : i <= j].arg = 1

\* C20: a start sets HDMI_EN and HDMI_TG_EN only after the shared clock was
\* disabled, reparented to sclk_hdmiphy and re-enabled; a stop clears both
\* before the shared clock is disabled, reparented to sclk_pixel and
\* re-enabled, and only then stops the repeater and then the PHY; and from the
\* disable of the shared clock up to its re-enable neither bit is set.
C20_Step ==
    /\ (last'.op = "streamon" /\ last'.ret = 0) =>
         C20_InOrder(log', <<"clk_disable", "clk_set_parent.sclk_hdmiphy",
                             "clk_enable", "HDMI_EN", "HDMI_TG_EN">>)
    /\ last'.op = "streamoff" =>
         /\ C20_InOrder(log', <<"HDMI_EN", "HDMI_TG_EN", "clk_disable",
                                "clk_set_parent.sclk_pixel", "clk_enable",
                                "mhl.s_stream", "phy.s_stream">>)
         /\ log'[C20_Pos(log', "HDMI_EN")].arg = 0
         /\ log'[C20_Pos(log', "HDMI_TG_EN")].arg = 0
    /\ last'.op \in {"streamon", "streamoff"} =>
         \A k \in Steps(log', "clk_disable") :
           \A j \in k..C20_Pos(log', "clk_enable") :
             /\ ~C20_SetBefore(log', j + 1, "HDMI_EN", CoreEnabled)
             /\ ~C20_SetBefore(log', j + 1, "HDMI_TG_EN", TgEnabled)

C20_EnableOnlyOnRunningClock == [][C20_Step]_vars

\* the start got as far as the repeater: the mode-apply (if any), the PHY
\* start and the PHY lock all succeeded
C21_Locked(l) ==
    /\ ~Rejected(l)
    /\ \E k \in Steps(l, "phy.s_stream") : l[k].arg = 1 /\ l[k].ret = 0
    /\ \E k \in Steps(l, "HDMI_PHY_STATUS") : l[k].ret = 1

\* C21: when a repeater is configured and its s_stream(1) fails, the start
\* asks the PHY to stop next (whatever the PHY answers), makes no clock call,
\* writes no enable bit and returns -EIO; when no repeater is configured the
\* -ENODEV of the repeater call does not make the start fail: it returns 0 and
\* the device streams whenever mode-apply, PHY start and PHY lock succeeded.
C21_Step ==
    last'.op = "streamon" =>
      /\ \A k \in Steps(log', "mhl.s_stream") :
           (mhl_sd /\ log'[k].ret # 0) =>
             /\ last'.ret = -EIO
             /\ Len(log') = k + 1
             /\ log'[k + 1].ev = "phy.s_stream" /\ log'[k + 1].arg = 0
             /\ phy'.stream = 0
             /\ \A j \in 1..Len(log') : log'[j].ev \notin ClockEvs \cup EnableEvs
             /\ sclk_hdmi' = sclk_hdmi
             /\ CoreEnabled' = CoreEnabled /\ TgEnabled' = TgEnabled
      /\ (~mhl_sd /\ C21_Locked(log')) =>
             /\ \E k \in Steps(log', "mhl.s_stream") : log'[k].ret = -ENODEV
             /\ last'.ret = 0
             /\ Streaming'
      /\ C21_Locked(log') = (Steps(log', "mhl.s_stream") # {})

C21_RepeaterHandling == [][C21_Step]_vars

\* C21 witness: on a device with a repeater, a start that applied the mode
\* had its repeater call fail, and the PHY's answer to the stop was an error
\* too: the start returned -EIO and the output is not enabled.
C21_Witness ==
    /\ last.op = "streamon" /\ last.ret = -EIO /\ last.dirty_in = 1 /\ mhl_sd
    /\ \E k \in Steps(log, "mhl.s_stream") :
         /\ log[k].ret = -EIO
         /\ log[k + 1] = Ev("phy.s_stream", 0, -EIO)
    /\ ~CoreEnabled /\ ~TgEnabled /\ sclk_hdmi.parent = "sclk_pixel"

\* enables less disables of the shared clock among the first n steps of a log
C22_Net(l, n) ==
    Cardinality({k \in Steps(l, "clk_enable") : k <= n})
      - Cardinality({k \in Steps(l, "clk_disable") : k <= n})

\* C22: the enable count of the shared clock is 0 after probe; in every call
\* the count after each step (the count on entry plus the enables less the
\* disables so far) is at least 0, and the count on return is the one the
\* steps give; a start and a stop return with the count they found, whether
\* they succeed or fail; the count is 1 after a successful resume and 0 after
\* a suspend or a failed resume.
C22_Step ==
    /\ \A n \in 0..Len(log') : sclk_hdmi.enable + C22_Net(log', n) >= 0
    /\ sclk_hdmi'.enable = sclk_hdmi.enable + C22_Net(log', Len(log'))
    /\ last'.op \in {"streamon", "streamoff"} => sclk_hdmi'.enable = sclk_hdmi.enable
    /\ last'.op = "resume" => sclk_hdmi'.enable = (IF last'.ret = 0 THEN 1 ELSE 0)
    /\ last'.op = "suspend" => sclk_hdmi'.enable = 0

C22_SharedClockBalance == sclk_hdmi.enable = 0 /\ [][C22_Step]_vars

\* C22 witness: a device that was resumed and started has seen a start fail
\* after that; the count is still 1 and the clock still on the PHY source.
C22_Witness ==
    /\ last.op = "streamon" /\ last.ret # 0 /\ last.en_in
    /\ sclk_hdmi = [parent |-> "sclk_hdmiphy", enable |-> 1]

\* C23: no hot-plug edge is acknowledged without being reported: a flag the
\* hardware latches after the handler has read HDMI_INTC_FLAG, while the
\* handler acknowledges the other flag, is still set in HDMI_INTC_FLAG when
\* the handler returns (writing 1 clears a flag).
C23_Step ==
    last'.op = "irq" =>
      \A f \in last'.arg.late \ last'.arg.intc_flag :
        (Steps(log', "HDMI_INTC_FLAG") # {}) => f \in ctl'["HDMI_INTC_FLAG"]

C23_NoEdgeLost == [][C23_Step]_vars

\* conf is the struct of a catalog entry whose dv_timings match timings
C24_Paired(conf, timings) ==
    /\ conf # "NULL"
    /\ \E i \in 1..ARRAY_SIZE :
         /\ hdmi_timings[i].hdmi_timings = conf
         /\ v4l2_match_dv_timings(hdmi_timings[i].dv_timings, timings)

\* C24: after probe and after every call cur_conf is non-NULL and is the
\* struct of a catalog entry whose dv_timings match cur_timings; the two
\* change only in a successful s_dv_timings, which sets both from one entry
\* (for every descriptor a caller can pass), and a failed one changes
\* neither; a mode-apply hands cur_timings to the PHY and programs the
\* registers from cur_conf; and g_mbus_fmt never returns -EINVAL and hands
\* back the size of cur_timings.
C24_Step ==
    /\ C24_Paired(cur_conf', cur_timings')
    /\ (cur_conf' # cur_conf \/ cur_timings' # cur_timings) =>
         /\ last'.op = "s_dv_timings" /\ last'.ret = 0
         /\ v4l2_match_dv_timings(cur_timings', last'.arg)
    /\ last'.op = "s_dv_timings" =>
         \A t \in AllDescs :
           LET r == hdmi_s_dv_timings([conf |-> cur_conf, dirty |-> cur_conf_dirty,
                                       timings |-> cur_timings], t)
           IN  IF r.ret = 0
               THEN C24_Paired(r.conf, r.timings) /\ v4l2_match_dv_timings(r.timings, t)
               ELSE r.conf = cur_conf /\ r.timings = cur_timings
    /\ (last'.op = "streamon" /\ Did(log', "cur_conf_dirty", 0)) =>
         /\ phy'.timings = cur_timings
         /\ Programmed(cur_conf)'
    /\ last'.op = "g_mbus_fmt" =>
         /\ last'.ret = 0
         /\ last'.out.width = cur_timings.width
         /\ last'.out.height = cur_timings.height

C24_ConfAndTimingsPaired == C24_Paired(cur_conf, cur_timings) /\ [][C24_Step]_vars

\* C24 witness: the interlaced mode was selected (cur_timings is the caller's
\* descriptor less the reduced-fps flag) and applied, and its format was then
\* read back.
C24_Witness ==
    /\ last.op = "g_mbus_fmt" /\ last.ret = 0 /\ last.out.height = 1080
    /\ cur_conf = "hdmi_timings_1080i60"
    /\ cur_timings # V4L2_DV_BT_CEA_1920X1080I60
    /\ v4l2_match_dv_timings(cur_timings, V4L2_DV_BT_CEA_1920X1080I60)
    /\ cur_conf_dirty = 0 /\ phy.timings = cur_timings

\* the n-bit field of a register value that starts at bit k
C25_Field(v, k, n) == (v \div (2 ^ k)) % (2 ^ n)

\* the pulses of a struct that are populated: the field-1 ones only when
\* interlaced
C25_Pulses(t) ==
    {t.hact, t.hsyn, t.vact[1], t.vsyn[1]}
      \cup (IF t.interlaced # 0 THEN {t.vact[2], t.vsyn[2]} ELSE {})

\* the values of t fit the fields hdmi_timing_apply packs them into
C25_Fits(t) ==
    /\ t.hsyn.beg < 2 ^ 10 /\ t.hsyn.end < 2 ^ 10
    /\ \A i \in 1..2 :
         /\ t.vact[i].beg < 2 ^ 11 /\ t.vact[i].end < 2 ^ 11
         /\ t.vsyn[i].beg < 2 ^ 12 /\ t.vsyn[i].end < 2 ^ 12
    /\ t.hsyn.beg + t.vsyn_off < 2 ^ 12
    /\ t.hact.end < 2 ^ 16 /\ t.hact.end - t.hact.beg < 2 ^ 16
    /\ t.vact[1].end - t.vact[1].beg < 2 ^ 16
    /\ \A p \in C25_Pulses(t) : p.beg < p.end

\* C25: for every struct of the catalog the values hdmi_timing_apply packs
\* fit their fields and byte counts: hsyn.beg and hsyn.end below 2^10, the
\* vact begins and ends below 2^11, the vsyn begins and ends, the vact ends
\* and hsyn.beg + vsyn_off below 2^12, each packed word below 2^24 and each
\* timing-generator value below 2^16, every populated pulse with beg < end;
\* so each register holds the whole value written to it and each field reads
\* back as the member it was packed from.
C25_CatalogFitsFields ==
    /\ \A name \in ConfNames : C25_Fits(TimingsOf(name))
    /\ \A name \in ConfNames : \A k \in 1..Len(TimingWrites[name]) :
         LET w == TimingWrites[name][k]
         IN  0 <= w[3] /\ w[3] < 2 ^ (8 * w[2])
    /\ last.op = "hdmi_timing_apply" =>
         LET t == TimingsOf(cur_conf)
             f == IF t.interlaced # 0 THEN 2 ELSE 1
         IN  /\ \A k \in 1..Len(TimingWrites[cur_conf]) :
                  regs[TimingWrites[cur_conf][k][1]] = TimingWrites[cur_conf][k][3]
             /\ C25_Field(regs["HDMI_H_SYNC_GEN_0"], 0, 10) = t.hsyn.beg
             /\ C25_Field(regs["HDMI_H_SYNC_GEN_0"], 10, 10) = t.hsyn.end
             /\ C25_Field(regs["HDMI_H_SYNC_GEN_0"], 20, 4) = t.hsyn_pol
             /\ C25_Field(regs["HDMI_V_BLANK_0"], 0, 11) = t.vact[1].end
             /\ C25_Field(regs["HDMI_V_BLANK_0"], 11, 13) = t.vact[1].beg
             /\ C25_Field(regs["HDMI_V_SYNC_GEN_1_0"], 0, 12) = t.vsyn[1].end
             /\ C25_Field(regs["HDMI_V_SYNC_GEN_1_0"], 12, 12) = t.vsyn[1].beg
             /\ C25_Field(regs["HDMI_H_V_LINE_0"], 0, 12) = t.vact[f].end
             /\ C25_Field(regs["HDMI_H_V_LINE_0"], 12, 12) = t.hact.end
             /\ regs["HDMI_TG_HACT_SZ_L"] = t.hact.end - t.hact.beg
             /\ regs["HDMI_TG_VACT_SZ_L"] = t.vact[1].end - t.vact[1].beg
             /\ t.interlaced # 0 =>
                  /\ C25_Field(regs["HDMI_V_BLANK_F_0"], 0, 11) = t.vact[2].beg
                  /\ C25_Field(regs["HDMI_V_BLANK_F_0"], 11, 13) = t.vact[2].end
                  /\ C25_Field(regs["HDMI_V_SYNC_GEN_2_0"], 0, 12) = t.vsyn[2].end
                  /\ C25_Field(regs["HDMI_V_SYNC_GEN_2_0"], 12, 12) = t.vsyn[2].beg
                  /\ C25_Field(regs["HDMI_V_SYNC_GEN_3_0"], 0, 12) = t.hsyn.beg + t.vsyn_off
                  /\ C25_Field(regs["HDMI_V_SYNC_GEN_3_0"], 12, 12) = t.hsyn.beg + t.vsyn_off

\* C25 witness: the 1080i50 struct, the one with the largest vsync-transition
\* value of the catalog (1848), has been programmed.
C25_Witness ==
    /\ last.op = "hdmi_timing_apply" /\ cur_conf = "hdmi_timings_1080i50"
    /\ regs["HDMI_V_SYNC_GEN_3_0"] = 1848 * 4096 + 1848
    /\ regs["HDMI_TG_H_FSZ_L"] = 2640

====
